---- MODULE Spec2Model ----
(***************************************************************************)
(* NeuroHarmony: the EEG scoring-and-recommendation pipeline.              *)
(*                                                                         *)
(*   caregiver.py     process_eeg_scores, run_predictions_on_uploaded_data *)
(*   general_user.py  get_catalog, get_recommended_playlist_for_user       *)
(*   db.py            DDB.put_recommendations / get_recommendations        *)
(*                                                                         *)
(* Numbers are exact: a cell value is a record [k, n, d, s]; a number has  *)
(* k = "num" and stands for n/d (d > 0, lowest terms); d = 0 encodes the   *)
(* IEEE specials NaN (n = 0), +inf (n = 1) and -inf (n = -1).  A string    *)
(* has k = "str" and text s; a datetime has k = "dt".  Binary rounding of  *)
(* floating point is not modelled.                                         *)
(*                                                                         *)
(* A column name is the sequence of its segments, split at every           *)
(* underscore with the underscore kept as a segment of its own, so that    *)
(* str.startswith / str.endswith are prefix / suffix tests on sequences.   *)
(***************************************************************************)
EXTENDS Integers, Sequences, FiniteSets, TLC

VARIABLES
    uploaded_file,       \* the CSV in the uploader widget, as read by pd.read_csv
    processed_eeg_data,  \* st.session_state.processed_eeg_data
    ml_model,            \* st.session_state.ml_model_results['model']
    patient_id,          \* st.session_state.patient_id
    recs,                \* the Recommendations collection, by document id
    songs,               \* the Songs collection, in stream order
    CATALOG,             \* general_user.CATALOG, the module-level cache
    user_email,          \* the argument of the general-user call
    max_tracks,          \* the argument of get_recommended_playlist_for_user
    alloc,               \* its local: the (category, count) pairs
    playlist,            \* its result
    caregiver_scores,    \* the result of get_caregiver_scores_for_user
    raised,              \* whether an exception escaped the last handler
    quicksort_ties,      \* how this build's sort_values (kind='quicksort') leaves ties
    session_keys,        \* the player keys present in the general user's st.session_state
    current_track,       \* st.session_state.current_track: <<>> is None, <<t>> the dict t
    is_playing,          \* st.session_state.is_playing
    playback_position,   \* st.session_state.playback_position
    listening_history,   \* st.session_state.listening_history
    handler,             \* the handler that ran last
    norm_path,           \* its local: per score column, the branch the normaliser took
    used_cols,           \* its local: the feature columns passed to the classifier
    ranked,              \* the local 'ranked' of the last handler that built a ranking
    st_msgs,             \* the st.warning/error/success/info calls of that handler
    calls                \* the collaborator calls of that handler, in order

sessionVars == <<uploaded_file, processed_eeg_data, ml_model, patient_id, norm_path,
                 used_cols, ranked>>
userVars == <<songs, CATALOG, user_email, max_tracks, alloc, playlist, caregiver_scores>>
buildVars == <<quicksort_ties>>
playerVars == <<session_keys, current_track, is_playing, playback_position,
                listening_history>>
vars == <<sessionVars, userVars, buildVars, playerVars, recs, raised, handler, st_msgs, calls>>

-----------------------------------------------------------------------------
(* Bounds of the model *)

MaxRows == 2

-----------------------------------------------------------------------------
(* Numbers: exact rationals with the IEEE specials *)

Abs(x) == IF x < 0 THEN -x ELSE x

RECURSIVE Gcd(_, _)
Gcd(a, b) == IF b = 0 THEN a ELSE Gcd(b, a % b)

Frac(n, d) ==
    LET g == Gcd(Abs(n), Abs(d))
        sg == IF d < 0 THEN -1 ELSE 1
    IN  [k |-> "num", n |-> (sg * n) \div g, d |-> (sg * d) \div g, s |-> ""]

Num(n) == [k |-> "num", n |-> n, d |-> 1, s |-> ""]
NaN == [k |-> "num", n |-> 0, d |-> 0, s |-> ""]
PosInf == [k |-> "num", n |-> 1, d |-> 0, s |-> ""]
NegInf == [k |-> "num", n |-> -1, d |-> 0, s |-> ""]
Str(t) == [k |-> "str", n |-> 0, d |-> 0, s |-> t]
Dt(t) == [k |-> "dt", n |-> 0, d |-> 0, s |-> t]

IsNaN(x) == x.k = "num" /\ x.d = 0 /\ x.n = 0
IsInf(x) == x.k = "num" /\ x.d = 0 /\ x.n # 0
IsFinite(x) == x.k = "num" /\ x.d # 0
Sign(x) == IF x.n > 0 THEN 1 ELSE IF x.n < 0 THEN -1 ELSE 0
OfSign(sg) == IF sg > 0 THEN PosInf ELSE IF sg < 0 THEN NegInf ELSE NaN

FNeg(x) == [x EXCEPT !.n = -x.n]

FAdd(a, b) ==
    IF IsNaN(a) \/ IsNaN(b) THEN NaN
    ELSE IF IsInf(a) /\ IsInf(b) THEN (IF a.n = b.n THEN a ELSE NaN)
    ELSE IF IsInf(a) THEN a
    ELSE IF IsInf(b) THEN b
    ELSE Frac(a.n * b.d + b.n * a.d, a.d * b.d)

FSub(a, b) == FAdd(a, FNeg(b))

FMul(a, b) ==
    IF IsNaN(a) \/ IsNaN(b) THEN NaN
    ELSE IF IsInf(a) \/ IsInf(b) THEN OfSign(Sign(a) * Sign(b))
    ELSE Frac(a.n * b.n, a.d * b.d)

\* numpy float division: x/0 is +-inf (0/0 is nan), inf/inf is nan
FDiv(a, b) ==
    IF IsNaN(a) \/ IsNaN(b) THEN NaN
    ELSE IF IsInf(a) THEN (IF IsInf(b) THEN NaN
                           ELSE OfSign(a.n * (IF b.n < 0 THEN -1 ELSE 1)))
    ELSE IF IsInf(b) THEN Num(0)
    ELSE IF b.n = 0 THEN OfSign(Sign(a))
    ELSE Frac(a.n * b.d, a.d * b.n)

\* IEEE comparisons: every comparison with NaN is false
FEq(a, b) ==
    /\ ~IsNaN(a) /\ ~IsNaN(b)
    /\ IF a.d = 0 \/ b.d = 0 THEN a = b ELSE a.n * b.d = b.n * a.d

FLt(a, b) ==
    /\ ~IsNaN(a) /\ ~IsNaN(b)
    /\ IF IsInf(a) THEN a.n < 0 /\ b # NegInf
       ELSE IF IsInf(b) THEN b.n > 0
       ELSE a.n * b.d < b.n * a.d

FLe(a, b) == FLt(a, b) \/ FEq(a, b)

-----------------------------------------------------------------------------
(* Sequences *)

Range(s) == {s[i] : i \in 1..Len(s)}

RECURSIVE SumSeq(_)
SumSeq(s) == IF s = <<>> THEN Num(0) ELSE FAdd(SumSeq(SubSeq(s, 1, Len(s) - 1)), s[Len(s)])

StartsWith(name, p) == Len(p) <= Len(name) /\ SubSeq(name, 1, Len(p)) = p
EndsWith(name, p) ==
    Len(p) <= Len(name) /\ SubSeq(name, Len(name) - Len(p) + 1, Len(name)) = p

-----------------------------------------------------------------------------
(* Column names *)

Bands == <<"Delta", "Theta", "Alpha", "Beta", "Gamma">>

Lower(band) ==
    CASE band = "Delta" -> "delta"
      [] band = "Theta" -> "theta"
      [] band = "Alpha" -> "alpha"
      [] band = "Beta" -> "beta"
      [] band = "Gamma" -> "gamma"

\* '{band}_{electrode}_mean'
EEGCol(band, el) == <<band, "_", el, "_", "mean">>

EngagementCol == <<"engagement", "_", "score">>
FocusCol == <<"focus", "_", "score">>
RelaxationCol == <<"relaxation", "_", "score">>
ScoreCols == <<EngagementCol, FocusCol, RelaxationCol>>
Normalized(col) == col \o <<"_", "normalized">>
TimestampCol == <<"timestamp">>

-----------------------------------------------------------------------------
(* Data frames: [none, columns, data], data[r][c] the cell of row r in
   column columns[c]; none = TRUE is Python's None *)

NoFrame == [none |-> TRUE, columns |-> <<>>, data |-> <<>>]
Frame(cols, rows) == [none |-> FALSE, columns |-> cols, data |-> rows]

NRows(df) == Len(df.data)
HasCol(df, name) == \E i \in 1..Len(df.columns) : df.columns[i] = name
ColIndex(df, name) == CHOOSE i \in 1..Len(df.columns) : df.columns[i] = name
Cell(df, r, name) == df.data[r][ColIndex(df, name)]
Column(df, name) == [r \in 1..NRows(df) |-> Cell(df, r, name)]

\* row.get(name, default)
RowGet(df, r, name, default) == IF HasCol(df, name) THEN Cell(df, r, name) ELSE default

\* df[name] = vals : replaces the column in place, or appends it
SetCol(df, name, vals) ==
    IF HasCol(df, name)
    THEN [df EXCEPT !.data = [r \in 1..NRows(df) |->
                                [df.data[r] EXCEPT ![ColIndex(df, name)] = vals[r]]]]
    ELSE [df EXCEPT !.columns = Append(df.columns, name),
                    !.data = [r \in 1..NRows(df) |-> Append(df.data[r], vals[r])]]

\* df.empty
IsEmpty(df) == Len(df.columns) = 0 \/ NRows(df) = 0

\* pd.api.types.is_numeric_dtype(df[c])
IsNumericDtype(df, name) == \A r \in 1..NRows(df) : Cell(df, r, name).k = "num"

\* Series.min() / Series.max() with skipna: NaN when nothing is left
NotNaNs(vals) == {vals[i] : i \in {j \in 1..Len(vals) : ~IsNaN(vals[j])}}
SeriesMin(vals) ==
    IF NotNaNs(vals) = {} THEN NaN
    ELSE CHOOSE x \in NotNaNs(vals) : \A y \in NotNaNs(vals) : FLe(x, y)
SeriesMax(vals) ==
    IF NotNaNs(vals) = {} THEN NaN
    ELSE CHOOSE x \in NotNaNs(vals) : \A y \in NotNaNs(vals) : FLe(y, x)

\* Series.mean() with skipna
SeriesMean(vals) ==
    LET kept == SelectSeq(vals, LAMBDA v : ~IsNaN(v))
    IN  IF kept = <<>> THEN NaN ELSE FDiv(SumSeq(kept), Num(Len(kept)))

-----------------------------------------------------------------------------
(* Cognitive score helpers *)

\* (row.get('B_TP9_mean', 0) + row.get('B_AF7_mean', 0) +
\*  row.get('B_AF8_mean', 0) + row.get('B_TP10_mean', 0)) / 4
ElectrodeMean(df, r, band) ==
    FDiv(FAdd(FAdd(FAdd(RowGet(df, r, EEGCol(band, "TP9"), Num(0)),
                        RowGet(df, r, EEGCol(band, "AF7"), Num(0))),
                   RowGet(df, r, EEGCol(band, "AF8"), Num(0))),
              RowGet(df, r, EEGCol(band, "TP10"), Num(0))),
         Num(4))

calculate_engagement_score(df, r) ==
    LET beta_mean == ElectrodeMean(df, r, "Beta")
        gamma_mean == ElectrodeMean(df, r, "Gamma")
        alpha_mean == ElectrodeMean(df, r, "Alpha")
        theta_mean == ElectrodeMean(df, r, "Theta")
        high_freq == FDiv(FAdd(beta_mean, gamma_mean), Num(2))
        low_freq == FDiv(FAdd(alpha_mean, theta_mean), Num(2))
    IN  FSub(high_freq, low_freq)

\* mutant: the zero-beta guard is missing
calculate_focus_score_unguarded(df, r) ==
    FDiv(ElectrodeMean(df, r, "Theta"), ElectrodeMean(df, r, "Beta"))

calculate_focus_score(df, r) ==
    LET beta_mean == ElectrodeMean(df, r, "Beta")
        theta_mean == ElectrodeMean(df, r, "Theta")
    IN  IF FEq(beta_mean, Num(0)) THEN PosInf ELSE FDiv(theta_mean, beta_mean)

\* mutant: the gamma band is left out of the active frequencies
calculate_relaxation_score_no_gamma(df, r) ==
    LET alpha_mean == ElectrodeMean(df, r, "Alpha")
        theta_mean == ElectrodeMean(df, r, "Theta")
        beta_mean == ElectrodeMean(df, r, "Beta")
        calm_freq == FDiv(FAdd(alpha_mean, theta_mean), Num(2))
        active_freq == FDiv(beta_mean, Num(2))
    IN  FSub(calm_freq, active_freq)

calculate_relaxation_score(df, r) ==
    LET alpha_mean == ElectrodeMean(df, r, "Alpha")
        theta_mean == ElectrodeMean(df, r, "Theta")
        beta_mean == ElectrodeMean(df, r, "Beta")
        gamma_mean == ElectrodeMean(df, r, "Gamma")
        calm_freq == FDiv(FAdd(alpha_mean, theta_mean), Num(2))
        active_freq == FDiv(FAdd(beta_mean, gamma_mean), Num(2))
    IN  FSub(calm_freq, active_freq)

\* band_cols = [c for c in out.columns if c.startswith(f"{band}_") and c.endswith('_mean')]
BandCols(out, band) ==
    SelectSeq(out.columns,
              LAMBDA c : StartsWith(c, <<band, "_">>) /\ EndsWith(c, <<"_", "mean">>))

\* if band_cols: out[band.lower()] = out[band_cols].mean(axis=1)
AddBand(out, band) ==
    LET band_cols == BandCols(out, band)
    IN  IF band_cols = <<>> THEN out
        ELSE SetCol(out, <<Lower(band)>>,
                    [r \in 1..NRows(out) |->
                        SeriesMean([i \in 1..Len(band_cols) |-> Cell(out, r, band_cols[i])])])

RECURSIVE AddBands(_, _)
AddBands(out, i) == IF i = 0 THEN out ELSE AddBand(AddBands(out, i - 1), Bands[i])

\* mutant: the max_v == min_v test is missing
NormalizePath_no_equal_test(out, col) ==
    LET min_v == SeriesMin(Column(out, col))
        max_v == SeriesMax(Column(out, col))
    IN  IF IsNaN(min_v) \/ IsNaN(max_v) THEN "const" ELSE "scaled"

\* the branch of the normaliser: the constant 5.0, or the division
NormalizePath(out, col) ==
    LET min_v == SeriesMin(Column(out, col))
        max_v == SeriesMax(Column(out, col))
    IN  IF IsNaN(min_v) \/ IsNaN(max_v) \/ FEq(max_v, min_v) THEN "const" ELSE "scaled"

\* mutant: the scaled branch divides by max_v instead of the range
NormalizeCol_divides_by_max(out, col) ==
    LET min_v == SeriesMin(Column(out, col))
        max_v == SeriesMax(Column(out, col))
    IN  IF NormalizePath(out, col) = "const"
        THEN SetCol(out, Normalized(col), [r \in 1..NRows(out) |-> Num(5)])
        ELSE SetCol(out, Normalized(col),
                    [r \in 1..NRows(out) |->
                        FDiv(FMul(Num(10), FSub(Cell(out, r, col), min_v)), max_v)])

NormalizeCol(out, col) ==
    LET min_v == SeriesMin(Column(out, col))
        max_v == SeriesMax(Column(out, col))
    IN  IF NormalizePath(out, col) = "const"
        THEN SetCol(out, Normalized(col), [r \in 1..NRows(out) |-> Num(5)])
        ELSE SetCol(out, Normalized(col),
                    [r \in 1..NRows(out) |->
                        FDiv(FMul(Num(10), FSub(Cell(out, r, col), min_v)),
                             FSub(max_v, min_v))])

AddScores(out) ==
    LET o1 == SetCol(out, EngagementCol,
                     [r \in 1..NRows(out) |-> calculate_engagement_score(out, r)])
        o2 == SetCol(o1, FocusCol,
                     [r \in 1..NRows(o1) |-> calculate_focus_score(o1, r)])
    IN  SetCol(o2, RelaxationCol,
               [r \in 1..NRows(o2) |-> calculate_relaxation_score(o2, r)])

process_eeg_scores(df) ==
    NormalizeCol(NormalizeCol(NormalizeCol(AddScores(AddBands(df, Len(Bands))),
                                           EngagementCol), FocusCol), RelaxationCol)

\* arithmetic on a string cell raises TypeError
ScoreInputCols(df) ==
    {c \in Range(df.columns) :
        \E b \in Range(Bands) : StartsWith(c, <<b, "_">>) /\ EndsWith(c, <<"_", "mean">>)}
process_eeg_scores_raises(df) ==
    \E c \in ScoreInputCols(df) : ~IsNumericDtype(df, c)

-----------------------------------------------------------------------------
(* The uploaded CSV files the model draws from *)

Readings == {NaN, Num(0), Num(1), Num(2)}

IsEEGName(c) == Len(c) = 5 /\ c[2] = "_" /\ c[4] = "_" /\ c[5] = "mean"

\* the values a cell of column c takes in the modelled files
CellDomain(c) ==
    IF c = EEGCol("Beta", "AF7") THEN {Str("n/a")}
    ELSE IF IsEEGName(c) THEN Readings
    ELSE IF c = TimestampCol THEN {Str("t")}
    ELSE IF c = <<"predicted", "_", "label">> THEN {Str("Rock")}
    ELSE {Num(1)}

AllCellValues == Readings \cup {Str("n/a"), Str("t"), Str("Rock"), Num(1)}

RowsOf(schema) ==
    {row \in [1..Len(schema) -> AllCellValues] :
        \A i \in 1..Len(schema) : row[i] \in CellDomain(schema[i])}

FilesOf(schema) ==
    {Frame(schema, rows) : rows \in UNION {[1..n -> RowsOf(schema)] : n \in 0..MaxRows}}

ScoreSchemas ==
    { <<EEGCol("Beta", "TP9"), EEGCol("Theta", "TP9")>>,
      <<EEGCol("Gamma", "AF8"), EEGCol("Alpha", "TP10")>>,
      <<EEGCol("Beta", "TP10"), EEGCol("Gamma", "TP9"), TimestampCol>>,
      <<EEGCol("Theta", "AF8"), EEGCol("Beta", "AF7")>> }

ScoreFiles == UNION {FilesOf(s) : s \in ScoreSchemas}

-----------------------------------------------------------------------------
(* Class labels *)

CLASS_LABELS == <<"Classical", "Rock", "Pop", "Rap", "R&B">>

PyNone == [k |-> "none", n |-> 0, d |-> 0, s |-> ""]

\* the strings that int() parses, with their values
NumeralStrings == {"2", "7"}
NumeralValue(s) == IF s = "2" THEN 2 ELSE 7

\* int(val): [ok, n]; ok = FALSE when int() raises
IntOf(val) ==
    IF IsFinite(val)
    THEN [ok |-> TRUE,
          n |-> IF val.n >= 0 THEN val.n \div val.d ELSE -((-val.n) \div val.d)]
    ELSE IF val.k = "str" /\ val.s \in NumeralStrings
    THEN [ok |-> TRUE, n |-> NumeralValue(val.s)]
    ELSE [ok |-> FALSE, n |-> 0]

\* f"Class {val}": kind "class" carries the text of val
Placeholder(val) ==
    IF val.k = "str" /\ val.s \in NumeralStrings
    THEN [k |-> "class", n |-> NumeralValue(val.s), d |-> 1, s |-> ""]
    ELSE [k |-> "class", n |-> val.n, d |-> val.d, s |-> val.s]

\* mutant: the code is taken as a zero-based index
class_value_to_label_zero_based(val) ==
    IF IntOf(val).ok /\ 0 <= IntOf(val).n /\ IntOf(val).n < Len(CLASS_LABELS)
    THEN Str(CLASS_LABELS[IntOf(val).n + 1])
    ELSE IF val.k = "str" /\ val.s \in Range(CLASS_LABELS)
    THEN val
    ELSE Placeholder(val)

class_value_to_label(val) ==
    IF IntOf(val).ok /\ 1 <= IntOf(val).n /\ IntOf(val).n <= Len(CLASS_LABELS)
    THEN Str(CLASS_LABELS[IntOf(val).n])
    ELSE IF val.k = "str" /\ val.s \in Range(CLASS_LABELS)
    THEN val
    ELSE Placeholder(val)

\* the order of Python's string comparison on the labels of the model
LabelRank(label) ==
    IF label.k = "class" THEN (IF label.d = 0 THEN -50 ELSE label.n - 100)
    ELSE CASE label.s = "Classical" -> 1
           [] label.s = "Pop" -> 2
           [] label.s = "R&B" -> 3
           [] label.s = "Rap" -> 4
           [] label.s = "Rock" -> 5
           [] OTHER -> 6

-----------------------------------------------------------------------------
(* The classifier: a loaded joblib artifact, a deterministic black box.
   Its answer for a row depends on the row's first feature only. *)

Half == Frac(1, 2)
Quarter == Frac(1, 4)

\* [pi, proba, fail]: the position in codes of the predicted class, the
\* probability vector, and which call raises on this row ("no" for none)
Answer(pi, proba, fail) == [pi |-> pi, proba |-> proba, fail |-> fail]

TableAnswer(table, v) ==
    CASE table = "forest" ->
            IF IsNaN(v) THEN Answer(1, <<>>, "predict")
            ELSE IF v = Num(0) THEN Answer(1, <<Frac(3, 4), Quarter, Num(0)>>, "no")
            ELSE IF v = Num(1) THEN Answer(2, <<Quarter, Half, Quarter>>, "no")
            ELSE Answer(3, <<Quarter, Quarter, Half>>, "no")
      [] table = "split" ->
            IF IsNaN(v) THEN Answer(1, <<>>, "proba")
            ELSE IF v = Num(0) THEN Answer(2, <<Half, Half, Num(0)>>, "no")
            ELSE IF v = Num(1) THEN Answer(1, <<Half, Quarter, Quarter>>, "no")
            ELSE Answer(3, <<Num(0), Half, Half>>, "no")
      [] table = "zero" ->
            Answer(1, <<Num(0), Num(0), Num(0)>>, "no")

NoModel ==
    [loaded |-> FALSE, has_proba |-> FALSE, has_classes |-> FALSE,
     codes |-> <<>>, table |-> "forest"]
Model(has_proba, has_classes, codes, table) ==
    [loaded |-> TRUE, has_proba |-> has_proba, has_classes |-> has_classes,
     codes |-> codes, table |-> table]

IntCodes == <<Num(1), Num(2), Num(3)>>
ZeroBasedCodes == <<Num(0), Num(1), Num(7)>>
TextCodes == <<Str("Pop"), Str("Rock"), Str("Techno")>>

Models ==
    { NoModel,
      Model(TRUE, TRUE, IntCodes, "forest"),
      Model(TRUE, TRUE, IntCodes, "split"),
      Model(TRUE, TRUE, ZeroBasedCodes, "split"),
      Model(TRUE, TRUE, TextCodes, "forest"),
      Model(FALSE, TRUE, IntCodes, "forest"),
      Model(TRUE, FALSE, IntCodes, "split"),
      Model(TRUE, TRUE, IntCodes, "zero") }

\* model.predict(X), model.predict_proba(X): X[r] is the feature row of row r
PredictRaises(model, X) ==
    \E r \in 1..Len(X) : TableAnswer(model.table, X[r][1]).fail = "predict"
Predict(model, X) ==
    [r \in 1..Len(X) |-> model.codes[TableAnswer(model.table, X[r][1]).pi]]
ProbaRaises(model, X) ==
    \E r \in 1..Len(X) : TableAnswer(model.table, X[r][1]).fail = "proba"
PredictProba(model, X) ==
    [r \in 1..Len(X) |-> TableAnswer(model.table, X[r][1]).proba]

\* proba.max(axis=1) and proba.argmax(axis=1): the first position of the maximum
RowMax(p) == SeriesMax(p)
RowArgmax(p) == CHOOSE i \in 1..Len(p) : p[i] = RowMax(p) /\ \A j \in 1..(i - 1) : p[j] # RowMax(p)

-----------------------------------------------------------------------------
(* run_predictions_on_uploaded_data: feature selection *)

PredictedPrefix == <<"predicted", "_">>
PredictedClassCol == <<"predicted", "_", "class">>
PredictedLabelCol == <<"predicted", "_", "label">>
PredictedProbaMaxCol == <<"predicted", "_", "proba", "_", "max">>
PredictedTopIndexCol == <<"predicted", "_", "proba", "_", "top", "_", "index">>
PredictedTopLabelCol == <<"predicted", "_", "top", "_", "label">>
MelodyCol == <<"Melody #">>

\* mutant: the 'predicted_' prefix is missing
created_prefixes_no_predicted == <<EngagementCol, FocusCol, RelaxationCol>>

created_prefixes == <<EngagementCol, FocusCol, RelaxationCol, PredictedPrefix>>

created_exact ==
    { <<"delta">>, <<"theta">>, <<"alpha">>, <<"beta">>, <<"gamma">>,
      <<"melody", "_", "category">>, MelodyCol, TimestampCol }

\* mutant: the '_normalized' suffix test is missing
is_created_no_suffix(col) ==
    \/ col \in created_exact
    \/ \E i \in 1..Len(created_prefixes) : StartsWith(col, created_prefixes[i])

\* mutant: the band means are not in the exact set
is_created_no_bands(col) ==
    \/ col \in {<<"melody", "_", "category">>, MelodyCol, TimestampCol}
    \/ \E i \in 1..Len(created_prefixes) : StartsWith(col, created_prefixes[i])
    \/ EndsWith(col, <<"_", "normalized">>)

is_created(col) ==
    \/ col \in created_exact
    \/ \E i \in 1..Len(created_prefixes) : StartsWith(col, created_prefixes[i])
    \/ EndsWith(col, <<"_", "normalized">>)

UsedCols(df) ==
    SelectSeq(df.columns, LAMBDA c : ~is_created(c) /\ IsNumericDtype(df, c))

\* X = df[used_cols].values
Features(df, cols) ==
    [r \in 1..NRows(df) |-> [i \in 1..Len(cols) |-> Cell(df, r, cols[i])]]

-----------------------------------------------------------------------------
(* run_predictions_on_uploaded_data: the predicted frame *)

\* val_to_label.get(val, class_value_to_label(val))
ValToLabel(model, val) ==
    IF \E i \in 1..Len(model.codes) : model.codes[i] = val
    THEN class_value_to_label(model.codes[CHOOSE i \in 1..Len(model.codes) : model.codes[i] = val])
    ELSE class_value_to_label(val)

WithLabels(df, model, y_pred) ==
    LET d1 == SetCol(df, PredictedClassCol, y_pred)
    IN  IF model.has_classes /\ Len(model.codes) > 0
        THEN SetCol(d1, PredictedLabelCol,
                    [r \in 1..NRows(d1) |-> ValToLabel(model, y_pred[r])])
        ELSE SetCol(d1, PredictedLabelCol,
                    [r \in 1..NRows(d1) |-> class_value_to_label(y_pred[r])])

\* mutant: the top label is copied from predicted_label
WithProba_label_of_predicted(d2, model, proba) ==
    LET max_proba == [r \in 1..NRows(d2) |-> RowMax(proba[r])]
        top_idx == [r \in 1..NRows(d2) |-> RowArgmax(proba[r])]
        d3 == SetCol(d2, PredictedProbaMaxCol, max_proba)
        d4 == SetCol(d3, PredictedTopIndexCol,
                     [r \in 1..NRows(d2) |-> Num(top_idx[r] - 1)])
    IN  IF model.has_classes /\ Len(model.codes) > 0
        THEN SetCol(d4, PredictedTopLabelCol, Column(d2, PredictedLabelCol))
        ELSE d4

WithProba(d2, model, proba) ==
    LET max_proba == [r \in 1..NRows(d2) |-> RowMax(proba[r])]
        top_idx == [r \in 1..NRows(d2) |-> RowArgmax(proba[r])]
        d3 == SetCol(d2, PredictedProbaMaxCol, max_proba)
        d4 == SetCol(d3, PredictedTopIndexCol,
                     [r \in 1..NRows(d2) |-> Num(top_idx[r] - 1)])
    IN  IF model.has_classes /\ Len(model.codes) > 0
        THEN SetCol(d4, PredictedTopLabelCol,
                    [r \in 1..NRows(d2) |-> class_value_to_label(model.codes[top_idx[r]])])
        ELSE d4

PredictedFrame(df, model, X) ==
    LET d2 == WithLabels(df, model, Predict(model, X))
    IN  IF model.has_proba THEN WithProba(d2, model, PredictProba(model, X)) ELSE d2

-----------------------------------------------------------------------------
(* run_predictions_on_uploaded_data: the ranking *)

Entry(cat, val) == [category |-> cat, score |-> val]

\* the distinct values of a column in sorted order (groupby sorts its keys)
RECURSIVE SortedKeys(_)
SortedKeys(S) ==
    IF S = {} THEN <<>>
    ELSE LET m == CHOOSE x \in S : \A y \in S : LabelRank(x) <= LabelRank(y)
         IN  <<m>> \o SortedKeys(S \ {m})

\* the distinct values of a column in order of first occurrence (value_counts)
RECURSIVE FirstSeenKeys(_)
FirstSeenKeys(vals) ==
    IF vals = <<>> THEN <<>>
    ELSE LET rest == FirstSeenKeys(SubSeq(vals, 1, Len(vals) - 1))
         IN  IF vals[Len(vals)] \in Range(rest) THEN rest ELSE Append(rest, vals[Len(vals)])

\* sort_values(ascending=False): descending by score, ties in the given order
RECURSIVE InsertDesc(_, _)
InsertDesc(sorted, e) ==
    IF sorted = <<>> THEN <<e>>
    ELSE IF FLt(sorted[Len(sorted)].score, e.score)
    THEN Append(InsertDesc(SubSeq(sorted, 1, Len(sorted) - 1), e), sorted[Len(sorted)])
    ELSE Append(sorted, e)

RECURSIVE SortDesc(_)
SortDesc(entries) ==
    IF entries = <<>> THEN <<>>
    ELSE InsertDesc(SortDesc(SubSeq(entries, 1, Len(entries) - 1)), entries[Len(entries)])

\* sort_values uses kind='quicksort', which is not a stable sort: equal scores
\* come out in the given order or not, as the build's sort leaves them
TieOutcomes == {"kept", "reversed"}
Reverse(s) == [i \in 1..Len(s) |-> s[Len(s) + 1 - i]]
SortValues(entries) ==
    IF quicksort_ties = "kept" THEN SortDesc(entries) ELSE SortDesc(Reverse(entries))

\* df.groupby(key)[val].sum()
GroupSum(df, keycol, valcol, key) ==
    SumSeq(SelectSeq([r \in 1..NRows(df) |->
                         IF Cell(df, r, keycol) = key THEN Cell(df, r, valcol) ELSE NaN],
                     LAMBDA v : ~IsNaN(v)))

GroupCount(df, keycol, key) == Cardinality({r \in 1..NRows(df) : Cell(df, r, keycol) = key})

\* float(agg.sum()) or 1.0
TotalOrOne(agg) ==
    LET total == SumSeq([i \in 1..Len(agg) |-> agg[i].score])
    IN  IF total = Num(0) THEN Num(1) ELSE total

\* mutant: the group sums are divided by the number of rows
WeightedRanking_by_rows(df_out) ==
    LET keys == SortedKeys(Range(Column(df_out, PredictedTopLabelCol)))
        agg == SortValues([i \in 1..Len(keys) |->
                   Entry(keys[i], GroupSum(df_out, PredictedTopLabelCol,
                                           PredictedProbaMaxCol, keys[i]))])
    IN  [i \in 1..Len(agg) |-> Entry(agg[i].category, FDiv(agg[i].score, Num(NRows(df_out))))]

WeightedRanking(df_out) ==
    LET keys == SortedKeys(Range(Column(df_out, PredictedTopLabelCol)))
        agg == SortValues([i \in 1..Len(keys) |->
                   Entry(keys[i], GroupSum(df_out, PredictedTopLabelCol,
                                           PredictedProbaMaxCol, keys[i]))])
        total == TotalOrOne(agg)
    IN  [i \in 1..Len(agg) |-> Entry(agg[i].category, FDiv(agg[i].score, total))]

\* df_out['predicted_label'].value_counts(normalize=True)
FrequencyRanking(df_out) ==
    LET keys == FirstSeenKeys(Column(df_out, PredictedLabelCol))
    IN  SortValues([i \in 1..Len(keys) |->
            Entry(keys[i], Frac(GroupCount(df_out, PredictedLabelCol, keys[i]),
                                NRows(df_out)))])

\* mutant: the relative frequency of the labels is used on both paths
BuildRanked_always_frequency(df_out) ==
    IF HasCol(df_out, PredictedLabelCol) THEN FrequencyRanking(df_out) ELSE <<>>

BuildRanked(df_out) ==
    IF HasCol(df_out, PredictedTopLabelCol) /\ HasCol(df_out, PredictedProbaMaxCol)
    THEN WeightedRanking(df_out)
    ELSE IF HasCol(df_out, PredictedLabelCol)
    THEN FrequencyRanking(df_out)
    ELSE <<>>

-----------------------------------------------------------------------------
(* run_predictions_on_uploaded_data: the cognitive scores *)

\* mutant: halves are rounded up
PyRound_half_up(x) ==
    LET fl == x.n \div x.d
        twice == 2 * (x.n - fl * x.d)
    IN  IF twice < x.d THEN fl ELSE fl + 1

\* Python's round(): half to even
PyRound(x) ==
    LET fl == x.n \div x.d
        twice == 2 * (x.n - fl * x.d)
    IN  IF twice < x.d THEN fl
        ELSE IF twice > x.d THEN fl + 1
        ELSE IF fl % 2 = 0 THEN fl ELSE fl + 1

\* round(x, 2); None stays None, nan stays nan
Round2(x) ==
    IF IsFinite(x) THEN Frac(PyRound(FMul(x, Num(100))), 100) ELSE x

ColumnMeanOrNone(df, col) ==
    IF HasCol(df, col) THEN SeriesMean(Column(df, col)) ELSE PyNone

\* mutant: the focus mean is taken without the inversion
InvertedMeanOrNone_plain(df, col) ==
    IF HasCol(df, col) THEN SeriesMean(Column(df, col)) ELSE PyNone

InvertedMeanOrNone(df, col) ==
    IF HasCol(df, col)
    THEN SeriesMean([r \in 1..NRows(df) |-> FSub(Num(10), Cell(df, r, col))])
    ELSE PyNone

CognitiveScores(df_out) ==
    [engagement |-> Round2(ColumnMeanOrNone(df_out, Normalized(EngagementCol))),
     focus |-> Round2(InvertedMeanOrNone(df_out, Normalized(FocusCol))),
     relaxation |-> Round2(ColumnMeanOrNone(df_out, Normalized(RelaxationCol)))]

-----------------------------------------------------------------------------
(* db.py: the Recommendations collection *)

\* user identifiers and the text of the Patient ID box, as segment sequences
Users == {<<"a">>, <<"b">>}
PatientIds == {<<>>, <<" ">>, <<" ", "a">>}

RECURSIVE LStrip(_)
LStrip(p) == IF p # <<>> /\ p[1] = " " THEN LStrip(Tail(p)) ELSE p
RECURSIVE RStrip(_)
RStrip(p) == IF p # <<>> /\ p[Len(p)] = " " THEN RStrip(SubSeq(p, 1, Len(p) - 1)) ELSE p
\* str.strip()
Strip(p) == RStrip(LStrip(p))

NoScores == [engagement |-> PyNone, focus |-> PyNone, relaxation |-> PyNone]
NoRecord ==
    [exists |-> FALSE, user_email |-> <<>>, categories |-> <<>>,
     has_scores |-> FALSE, cognitive_scores |-> NoScores]

\* mutant: the write merges into the stored document, so categories of the
\* earlier write that the new ranking lacks stay in it
RecommendationDoc_merged(email, categories, cognitive_scores) ==
    [exists |-> TRUE, user_email |-> email,
     categories |-> categories \o
        SelectSeq(recs[email].categories,
                  LAMBDA e : \A i \in 1..Len(categories) : categories[i].category # e.category),
     has_scores |-> TRUE, cognitive_scores |-> cognitive_scores]

\* the document written by put_recommendations (updated_at left out)
RecommendationDoc(email, categories, cognitive_scores) ==
    [exists |-> TRUE, user_email |-> email, categories |-> categories,
     has_scores |-> TRUE, cognitive_scores |-> cognitive_scores]

EmptyStore == [u \in Users |-> NoRecord]

\* what a use of the store does: it works, the request fails with a
\* GoogleAPIError, or building the client raises
StoreOutcomes == {"ok", "api_error", "init_error"}

-----------------------------------------------------------------------------
(* general_user.py: the catalog *)

DefaultMaxTracks == 6

Uncategorized == Str("Uncategorized")

\* a document of the Songs collection as list_songs returns it (the id is
\* always set there); category PyNone is a document without the field
Song(id, category) == [id |-> id, category |-> category]

\* an empty dict
NoCatalog == [c \in {} |-> <<>>]

\* by_cat.setdefault(cat, []).append(it), for every item
CategoryOf(it) == IF it.category = PyNone THEN Uncategorized ELSE it.category
GroupByCategory(items) ==
    [c \in {CategoryOf(items[i]) : i \in 1..Len(items)} |->
        SelectSeq(items, LAMBDA it : CategoryOf(it) = c)]

\* _load_catalog_from_store(): list_songs() answers [] on a GoogleAPIError, and
\* an exception of DDB() is caught here
LoadCatalog(outcome) == IF outcome = "ok" THEN GroupByCategory(songs) ELSE NoCatalog

\* get_catalog(): the value of CATALOG after the call
GetCatalog(outcome) == IF DOMAIN CATALOG = {} THEN LoadCatalog(outcome) ELSE CATALOG

-----------------------------------------------------------------------------
(* general_user.py: get_caregiver_scores_for_user *)

\* the return value: None, or the cognitive_scores dict of the record
NoneScores == [some |-> FALSE, value |-> NoScores]
SomeScores(scores) == [some |-> TRUE, value |-> scores]

get_caregiver_scores_for_user(store) ==
    /\ handler' = "get_caregiver_scores_for_user"
    /\ st_msgs' = <<>>
    /\ UNCHANGED <<sessionVars, buildVars, playerVars, recs, songs, CATALOG, user_email, max_tracks, alloc, playlist>>
    /\ IF user_email = <<>>
       THEN /\ caregiver_scores' = NoneScores
            /\ calls' = <<>>
            /\ raised' = FALSE
       ELSE IF store = "init_error"
       THEN /\ raised' = TRUE
            /\ calls' = <<"DDB">>
            /\ UNCHANGED caregiver_scores
       ELSE /\ raised' = FALSE
            /\ calls' = <<"DDB", "get_recommendations">>
            /\ caregiver_scores' =
                  IF store = "api_error" \/ ~recs[user_email].exists
                       \/ ~recs[user_email].has_scores
                  THEN NoneScores
                  ELSE SomeScores(recs[user_email].cognitive_scores)

-----------------------------------------------------------------------------
(* general_user.py: get_recommended_playlist_for_user *)

Max(a, b) == IF a >= b THEN a ELSE b
Min(a, b) == IF a <= b THEN a ELSE b

\* r.get('score') or 0.0
ScoreOrZero(r) == IF r.score = PyNone THEN Num(0) ELSE r.score

\* float(sum((r.get('score') or 0.0) for r in ranked)) or 1.0
ScoreTotal(stored) ==
    LET total == SumSeq([i \in 1..Len(stored) |-> ScoreOrZero(stored[i])])
    IN  IF total = Num(0) THEN Num(1) ELSE total

\* mutant: the scores are divided by the total of the categories kept
FilterRanked_renormalized(stored, catalog) ==
    LET inCatalog == SelectSeq(stored, LAMBDA r : r.category \in DOMAIN catalog)
        total == ScoreTotal(inCatalog)
    IN  [i \in 1..Len(inCatalog) |->
            Entry(inCatalog[i].category, FDiv(ScoreOrZero(inCatalog[i]), total))]

\* the ranking restricted to the catalog, each score divided by the total
FilterRanked(stored, catalog) ==
    LET total == ScoreTotal(stored)
        scaled == [i \in 1..Len(stored) |->
                     Entry(stored[i].category, FDiv(ScoreOrZero(stored[i]), total))]
    IN  SelectSeq(scaled, LAMBDA r : r.category \in DOMAIN catalog)

\* mutant: the last category is given its rounded count like the others
RECURSIVE Allocate_last_rounded(_, _, _, _, _)
Allocate_last_rounded(kept, n, i, remaining, acc) ==
    IF i > Len(kept) THEN acc
    ELSE LET count == Min(Max(1, PyRound(FMul(kept[i].score, Num(n)))), remaining)
             acc2 == Append(acc, <<kept[i].category, count>>)
         IN  IF remaining - count <= 0 THEN acc2
             ELSE Allocate_last_rounded(kept, n, i + 1, remaining - count, acc2)

\* the allocation loop, from position i with the given remaining budget
RECURSIVE Allocate(_, _, _, _, _)
Allocate(kept, n, i, remaining, acc) ==
    IF i > Len(kept) THEN acc
    ELSE LET rounded == Max(1, PyRound(FMul(kept[i].score, Num(n))))
             wanted == IF i = Len(kept) THEN Max(1, remaining) ELSE rounded
             count == Min(wanted, remaining)
             acc2 == Append(acc, <<kept[i].category, count>>)
         IN  IF remaining - count <= 0 THEN acc2
             ELSE Allocate(kept, n, i + 1, remaining - count, acc2)

\* mutant: every track of an allocated category is taken, whatever its count
RECURSIVE Fill_whole_category(_, _, _, _, _)
Fill_whole_category(pairs, catalog, n, i, acc) ==
    IF i > Len(pairs) \/ Len(acc) >= n THEN acc
    ELSE LET tracks == catalog[pairs[i][1]]
             take == Min(Len(tracks), n - Len(acc))
         IN  Fill_whole_category(pairs, catalog, n, i + 1,
                  acc \o [j \in 1..take |-> [tracks[j] EXCEPT !.category = pairs[i][1]]])

\* the playlist loop: catalog[cat][:cnt] for each pair, at most n tracks
RECURSIVE Fill(_, _, _, _, _)
Fill(pairs, catalog, n, i, acc) ==
    IF i > Len(pairs) \/ Len(acc) >= n THEN acc
    ELSE LET tracks == catalog[pairs[i][1]]
             take == Min(Min(pairs[i][2], Len(tracks)), n - Len(acc))
         IN  Fill(pairs, catalog, n, i + 1,
                  acc \o [j \in 1..take |-> [tracks[j] EXCEPT !.category = pairs[i][1]]])

\* the call returns [] before it reaches the catalog
PlaylistEmpty(made) ==
    /\ playlist' = <<>>
    /\ alloc' = <<>>
    /\ ranked' = <<>>
    /\ calls' = made
    /\ raised' = FALSE
    /\ UNCHANGED CATALOG

get_recommended_playlist_for_user(store, catalog_store) ==
    /\ handler' = "get_recommended_playlist_for_user"
    /\ st_msgs' = <<>>
    /\ UNCHANGED <<uploaded_file, processed_eeg_data, ml_model, patient_id, norm_path, used_cols>>
    /\ UNCHANGED <<buildVars, playerVars, recs, songs, user_email, max_tracks, caregiver_scores>>
    /\ IF user_email = <<>>
       THEN PlaylistEmpty(<<>>)
       ELSE IF store = "init_error"
       THEN /\ raised' = TRUE
            /\ calls' = <<"DDB">>
            /\ ranked' = <<>>
            /\ UNCHANGED <<playlist, alloc, CATALOG>>
       ELSE IF store = "api_error" \/ ~recs[user_email].exists
       THEN PlaylistEmpty(<<"DDB", "get_recommendations">>)
       ELSE IF recs[user_email].categories = <<>>
       THEN PlaylistEmpty(<<"DDB", "get_recommendations">>)
       ELSE LET catalog == GetCatalog(catalog_store)
                kept == FilterRanked(recs[user_email].categories, catalog)
                pairs == Allocate(kept, max_tracks, 1, max_tracks, <<>>)
            IN  /\ CATALOG' = catalog
                /\ ranked' = kept
                /\ alloc' = pairs
                /\ playlist' = Fill(pairs, catalog, max_tracks, 1, <<>>)
                /\ raised' = FALSE
                /\ calls' = <<"DDB", "get_recommendations">>
                            \o (IF DOMAIN CATALOG = {} THEN <<"DDB", "list_songs">> ELSE <<>>)

-----------------------------------------------------------------------------
(* caregiver_dashboard, page "EEG Data Upload" *)

NoPaths == [c \in Range(ScoreCols) |-> "none"]

\* df_new['timestamp'] = pd.to_datetime(df_new['timestamp'], errors='coerce')
CoerceTimestamp(df_new) ==
    IF HasCol(df_new, TimestampCol)
    THEN SetCol(df_new, TimestampCol,
                [r \in 1..NRows(df_new) |-> Dt(Cell(df_new, r, TimestampCol).s)])
    ELSE df_new

\* mutant: the prediction column of the previous batch is carried over
UploadFile_keeps_predictions(f) ==
    /\ uploaded_file' = f
    /\ handler' = "upload"
    /\ calls' = <<>>
    /\ LET df_new == CoerceTimestamp(f)
       IN  IF process_eeg_scores_raises(df_new)
           THEN /\ st_msgs' = <<"error: Error processing file">>
                /\ UNCHANGED <<processed_eeg_data, norm_path>>
           ELSE /\ processed_eeg_data' =
                     IF /\ ~processed_eeg_data.none
                        /\ HasCol(processed_eeg_data, PredictedClassCol)
                        /\ NRows(processed_eeg_data) = NRows(df_new)
                     THEN SetCol(process_eeg_scores(df_new), PredictedClassCol,
                                 Column(processed_eeg_data, PredictedClassCol))
                     ELSE process_eeg_scores(df_new)
                /\ norm_path' = [c \in Range(ScoreCols) |->
                                   NormalizePath(AddScores(AddBands(df_new, Len(Bands))), c)]
                /\ st_msgs' = <<"success: Loaded rows">>
    /\ used_cols' = <<>>
    /\ ranked' = <<>>
    /\ raised' = FALSE
    /\ UNCHANGED <<ml_model, patient_id, recs, userVars, buildVars, playerVars>>

\* the script runs with file f in the uploader
UploadFile(f) ==
    /\ uploaded_file' = f
    /\ handler' = "upload"
    /\ calls' = <<>>
    /\ LET df_new == CoerceTimestamp(f)
       IN  IF process_eeg_scores_raises(df_new)
           THEN /\ st_msgs' = <<"error: Error processing file">>
                /\ UNCHANGED <<processed_eeg_data, norm_path>>
           ELSE /\ processed_eeg_data' = process_eeg_scores(df_new)
                /\ norm_path' = [c \in Range(ScoreCols) |->
                                   NormalizePath(AddScores(AddBands(df_new, Len(Bands))), c)]
                /\ st_msgs' = <<"success: Loaded rows">>
    /\ used_cols' = <<>>
    /\ ranked' = <<>>
    /\ raised' = FALSE
    /\ UNCHANGED <<ml_model, patient_id, recs, userVars, buildVars, playerVars>>

\* st.session_state.patient_id = st.text_input(...)
SetPatientId(p) ==
    /\ patient_id' = p
    /\ handler' = "patient_id"
    /\ st_msgs' = <<>>
    /\ calls' = <<>>
    /\ norm_path' = NoPaths
    /\ used_cols' = <<>>
    /\ ranked' = <<>>
    /\ raised' = FALSE
    /\ UNCHANGED <<uploaded_file, processed_eeg_data, ml_model, recs, userVars, buildVars, playerVars>>

-----------------------------------------------------------------------------
(* run_predictions_on_uploaded_data *)

MsgUnavailable == "warning: Model or data not available."
MsgNoFeatures == "error: No suitable numeric feature columns found for prediction."
MsgPredicted == "success: Predictions added to the dataset."
MsgSaved == "success: Saved caregiver playlist recommendations"
MsgNotSaved == "error: Failed to save recommendations."
MsgNoPatient == "info: Enter a Patient ID (email) in EEG Upload to save playlist recommendations."
MsgRunError == "error: Error running predictions"

\* mutant: the refusal is reported after the classifier was asked
RunRefused_after_predict(msg) ==
    /\ st_msgs' = <<msg>>
    /\ calls' = <<"predict">>
    /\ used_cols' = <<>>
    /\ ranked' = <<>>
    /\ UNCHANGED <<processed_eeg_data, recs>>

\* the handler returns before the try block: nothing but the message changes
RunRefused(msg) ==
    /\ st_msgs' = <<msg>>
    /\ calls' = <<>>
    /\ used_cols' = <<>>
    /\ ranked' = <<>>
    /\ UNCHANGED <<processed_eeg_data, recs>>

\* mutant: predicted_class is written to the session frame itself, not to a copy
RunFailed_in_place(used, made) ==
    /\ st_msgs' = <<MsgRunError>>
    /\ calls' = made
    /\ used_cols' = used
    /\ ranked' = <<>>
    /\ processed_eeg_data' =
          IF Len(made) = 2
          THEN SetCol(processed_eeg_data, PredictedClassCol,
                      Predict(ml_model, Features(processed_eeg_data, used)))
          ELSE processed_eeg_data
    /\ UNCHANGED recs

\* the classifier raised: the except clause reports it
RunFailed(used, made) ==
    /\ st_msgs' = <<MsgRunError>>
    /\ calls' = made
    /\ used_cols' = used
    /\ ranked' = <<>>
    /\ UNCHANGED <<processed_eeg_data, recs>>

\* mutant: the write is attempted without a patient id as well
RunCommitted_writes_without_patient(used, df_out, made, store) ==
    LET pid == Strip(patient_id)
        built == BuildRanked(df_out)
    IN  /\ processed_eeg_data' = df_out
        /\ used_cols' = used
        /\ ranked' = built
        /\ IF built = <<>>
           THEN /\ st_msgs' = <<MsgPredicted>>
                /\ calls' = made
                /\ UNCHANGED recs
           ELSE /\ st_msgs' = <<MsgPredicted, MsgNotSaved>>
                /\ calls' = made \o <<"DDB", "put_recommendations">>
                /\ UNCHANGED recs

\* lines 247-305: df_out is committed, then the ranking is built and saved
RunCommitted(used, df_out, made, store) ==
    LET pid == Strip(patient_id)
        built == BuildRanked(df_out)
    IN  /\ processed_eeg_data' = df_out
        /\ used_cols' = used
        /\ IF pid = <<>>
           THEN /\ st_msgs' = <<MsgPredicted, MsgNoPatient>>
                /\ calls' = made
                /\ ranked' = <<>>
                /\ UNCHANGED recs
           ELSE /\ ranked' = built
                /\ IF built = <<>>
                   THEN /\ st_msgs' = <<MsgPredicted>>
                        /\ calls' = made
                        /\ UNCHANGED recs
                   ELSE CASE store = "ok" ->
                               /\ recs' = [recs EXCEPT ![pid] =
                                     RecommendationDoc(pid, built, CognitiveScores(df_out))]
                               /\ st_msgs' = <<MsgPredicted, MsgSaved>>
                               /\ calls' = made \o <<"DDB", "put_recommendations">>
                          [] store = "api_error" ->
                               /\ st_msgs' = <<MsgPredicted, MsgNotSaved>>
                               /\ calls' = made \o <<"DDB", "put_recommendations">>
                               /\ UNCHANGED recs
                          [] store = "init_error" ->
                               /\ st_msgs' = <<MsgPredicted, MsgRunError>>
                               /\ calls' = made \o <<"DDB">>
                               /\ UNCHANGED recs

RunPredictions(store) ==
    /\ handler' = "run_predictions"
    /\ norm_path' = NoPaths
    /\ raised' = FALSE
    /\ UNCHANGED <<uploaded_file, ml_model, patient_id, userVars, buildVars, playerVars>>
    /\ LET df == processed_eeg_data
           model == ml_model
       IN  IF ~model.loaded \/ df.none \/ IsEmpty(df)
           THEN RunRefused(MsgUnavailable)
           ELSE IF UsedCols(df) = <<>>
           THEN RunRefused(MsgNoFeatures)
           ELSE LET used == UsedCols(df)
                    X == Features(df, used)
                IN  IF PredictRaises(model, X)
                    THEN RunFailed(used, <<"predict">>)
                    ELSE IF model.has_proba /\ ProbaRaises(model, X)
                    THEN RunFailed(used, <<"predict", "predict_proba">>)
                    ELSE RunCommitted(used, PredictedFrame(df, model, X),
                                      IF model.has_proba
                                      THEN <<"predict", "predict_proba">>
                                      ELSE <<"predict">>,
                                      store)

-----------------------------------------------------------------------------
(* general_user.py: the player keys of st.session_state *)

PlayerKeys == {"current_track", "is_playing", "playback_position", "listening_history"}
NoTrack == <<>>

\* a new Streamlit session: none of the keys is present.  A key that is absent
\* has no value; what the variables hold here is never read, the handlers
\* read through AfterInitialize
NoPlayerSession ==
    /\ session_keys = {}
    /\ current_track = NoTrack
    /\ is_playing = TRUE
    /\ playback_position = -1
    /\ listening_history = <<>>

\* initialize_session_state(): every key that is absent gets its default
AfterInitialize ==
    [current_track |-> IF "current_track" \in session_keys THEN current_track ELSE NoTrack,
     is_playing |-> IF "is_playing" \in session_keys THEN is_playing ELSE FALSE,
     playback_position |->
         IF "playback_position" \in session_keys THEN playback_position ELSE 0,
     listening_history |->
         IF "listening_history" \in session_keys THEN listening_history ELSE <<>>]

\* the cards a run of the dashboard draws: track_card(track, cat) for the
\* tracks of the catalog, by category
Cards(catalog) ==
    UNION {{<<catalog[c][i], c>> : i \in 1..Len(catalog[c])} : c \in DOMAIN catalog}

\* DDB().log_event(...): log_event answers False on a GoogleAPIError, the
\* constructor raises
LogEvent(store, made) ==
    /\ raised' = (store = "init_error")
    /\ calls' = made \o (IF store = "init_error" THEN <<"DDB">> ELSE <<"DDB", "log_event">>)

\* a run of general_user_dashboard without a click: lines 205-206
general_user_dashboard(catalog_store) ==
    /\ handler' = "general_user_dashboard"
    /\ session_keys' = session_keys \cup PlayerKeys
    /\ current_track' = AfterInitialize.current_track
    /\ is_playing' = AfterInitialize.is_playing
    /\ playback_position' = AfterInitialize.playback_position
    /\ listening_history' = AfterInitialize.listening_history
    /\ CATALOG' = GetCatalog(catalog_store)
    /\ calls' = IF DOMAIN CATALOG = {} THEN <<"DDB", "list_songs">> ELSE <<>>
    /\ raised' = FALSE
    /\ st_msgs' = <<>>
    /\ UNCHANGED <<sessionVars, buildVars, recs, songs, user_email, max_tracks, alloc,
                   playlist, caregiver_scores>>

\* mutant: the Stop button leaves is_playing as it was
StopButton_keeps_playing(store, catalog_store) ==
    /\ session_keys = PlayerKeys
    /\ handler' = "stop_button"
    /\ current_track' = NoTrack
    /\ playback_position' = 0
    /\ CATALOG' = GetCatalog(catalog_store)
    /\ LogEvent(store, IF DOMAIN CATALOG = {} THEN <<"DDB", "list_songs">> ELSE <<>>)
    /\ st_msgs' = <<>>
    /\ UNCHANGED <<session_keys, is_playing, listening_history>>
    /\ UNCHANGED <<sessionVars, buildVars, recs, songs, user_email, max_tracks, alloc,
                   playlist, caregiver_scores>>

\* the run after a click on Stop (the button exists once a run has drawn
\* it): lines 205-206, then lines 238-244
StopButton(store, catalog_store) ==
    /\ session_keys = PlayerKeys
    /\ handler' = "stop_button"
    /\ current_track' = NoTrack
    /\ is_playing' = FALSE
    /\ playback_position' = 0
    /\ CATALOG' = GetCatalog(catalog_store)
    /\ LogEvent(store, IF DOMAIN CATALOG = {} THEN <<"DDB", "list_songs">> ELSE <<>>)
    /\ st_msgs' = <<>>
    /\ UNCHANGED <<session_keys, listening_history>>
    /\ UNCHANGED <<sessionVars, buildVars, recs, songs, user_email, max_tracks, alloc,
                   playlist, caregiver_scores>>

\* the run after a click on the play button of a card the previous run drew:
\* track_card lines 167-183; now is datetime.now()
track_card(track, category, now, store) ==
    /\ session_keys = PlayerKeys
    /\ <<track, category>> \in Cards(CATALOG)
    /\ handler' = "track_card"
    /\ current_track' = <<[track EXCEPT !.category = category]>>
    /\ is_playing' = TRUE
    /\ playback_position' = 0
    /\ listening_history' =
          Append(listening_history,
                 [timestamp |-> now, track |-> track, category |-> category])
    /\ LogEvent(store, <<>>)
    /\ st_msgs' = <<>>
    /\ UNCHANGED <<session_keys, CATALOG>>
    /\ UNCHANGED <<sessionVars, buildVars, recs, songs, user_email, max_tracks, alloc,
                   playlist, caregiver_scores>>

-----------------------------------------------------------------------------
(* The scoring stage alone: one uploaded file, processed *)

ScoreInit ==
    /\ uploaded_file \in ScoreFiles
    /\ processed_eeg_data = NoFrame
    /\ ml_model = NoModel
    /\ patient_id = <<>>
    /\ recs = EmptyStore
    /\ songs = <<>>
    /\ CATALOG = NoCatalog
    /\ user_email = <<>>
    /\ max_tracks = DefaultMaxTracks
    /\ alloc = <<>>
    /\ playlist = <<>>
    /\ caregiver_scores = NoneScores
    /\ raised = FALSE
    /\ quicksort_ties = "kept"
    /\ NoPlayerSession
    /\ norm_path = NoPaths
    /\ used_cols = <<>>
    /\ ranked = <<>>
    /\ handler = "init"
    /\ st_msgs = <<>>
    /\ calls = <<>>

ScoreNext == UploadFile(uploaded_file)

SpecScore == ScoreInit /\ [][ScoreNext]_vars

-----------------------------------------------------------------------------
(* The caregiver session: uploads, the Patient ID box, prediction runs *)

FeatureSchema == <<EEGCol("Beta", "TP9"), TimestampCol, MelodyCol>>

ExampleFile ==
    Frame(<<EEGCol("Beta", "TP9"), EngagementCol, Normalized(EngagementCol),
            PredictedLabelCol, TimestampCol, MelodyCol>>,
          << <<Num(1), Num(1), Num(1), Str("Rock"), Str("t"), Num(1)>> >>)

NoFeatureFile == Frame(<<TimestampCol, MelodyCol>>, << <<Str("t"), Num(1)>> >>)

TwoFeatureFile ==
    Frame(<<EEGCol("Theta", "AF7"), EEGCol("Beta", "AF8")>>,
          << <<Num(2), Num(1)>>, <<Num(0), Num(1)>>, <<Num(2), Num(0)>> >>)

OneColumn(vals) ==
    Frame(FeatureSchema, [r \in 1..Len(vals) |-> <<vals[r], Str("t"), Num(1)>>])

SessionFiles ==
    { OneColumn(<<>>), OneColumn(<<Num(0), Num(1)>>), OneColumn(<<Num(2), NaN>>),
      OneColumn(<<Num(1), Num(0), Num(1)>>),
      Frame(<<EEGCol("Beta", "AF7")>>, << <<Str("n/a")>> >>),
      ExampleFile, NoFeatureFile, TwoFeatureFile }

Init ==
    /\ uploaded_file = NoFrame
    /\ processed_eeg_data = NoFrame
    /\ ml_model \in Models
    /\ patient_id = <<>>
    /\ recs = EmptyStore
    /\ songs = <<>>
    /\ CATALOG = NoCatalog
    /\ user_email = <<>>
    /\ max_tracks = DefaultMaxTracks
    /\ alloc = <<>>
    /\ playlist = <<>>
    /\ caregiver_scores = NoneScores
    /\ raised = FALSE
    /\ quicksort_ties = "kept"
    /\ NoPlayerSession
    /\ norm_path = NoPaths
    /\ used_cols = <<>>
    /\ ranked = <<>>
    /\ handler = "init"
    /\ st_msgs = <<>>
    /\ calls = <<>>

Upload == \E f \in SessionFiles : UploadFile(f)
EnterPatientId == \E p \in PatientIds : SetPatientId(p)
\* ml_model_dashboard: the button is drawn when a model is loaded and the
\* session holds a non-empty batch
Run ==
    /\ ml_model.loaded
    /\ ~processed_eeg_data.none /\ ~IsEmpty(processed_eeg_data)
    /\ \E store \in StoreOutcomes : RunPredictions(store)

Next == Upload \/ EnterPatientId \/ Run

Spec == Init /\ [][Next]_vars

-----------------------------------------------------------------------------
(* run_predictions_on_uploaded_data called in a session state: before any
   upload, or after the upload of one file *)

\* a numeric column that only the '_normalized' suffix excludes
SuffixFile ==
    Frame(<<EEGCol("Beta", "TP9"), <<"Quality", "_", "normalized">>>>,
          << <<Num(1), Num(2)>> >>)

\* classifiers whose class codes are out of range, fractional, infinite or text
BoundaryCodes == <<Num(5), Num(6), Num(-1)>>
FloatCodes == <<Frac(5, 2), Frac(13, 2), PosInf>>
NumeralCodes == <<Str("2"), Str("7"), Str("R&B")>>

RunModels ==
    Models \cup
    { Model(TRUE, TRUE, BoundaryCodes, "forest"),
      Model(TRUE, TRUE, FloatCodes, "forest"),
      Model(TRUE, TRUE, NumeralCodes, "forest"),
      Model(FALSE, FALSE, NumeralCodes, "forest"),
      Model(FALSE, FALSE, TextCodes, "split") }

RunFiles ==
    FilesOf(FeatureSchema) \cup {ExampleFile, NoFeatureFile, TwoFeatureFile, SuffixFile}

RunInit ==
    /\ uploaded_file \in RunFiles \cup {NoFrame}
    /\ processed_eeg_data = IF uploaded_file.none THEN NoFrame
                            ELSE process_eeg_scores(CoerceTimestamp(uploaded_file))
    /\ ml_model \in RunModels
    /\ patient_id \in PatientIds
    /\ recs = EmptyStore
    /\ songs = <<>>
    /\ CATALOG = NoCatalog
    /\ user_email = <<>>
    /\ max_tracks = DefaultMaxTracks
    /\ alloc = <<>>
    /\ playlist = <<>>
    /\ caregiver_scores = NoneScores
    /\ raised = FALSE
    /\ quicksort_ties \in TieOutcomes
    /\ NoPlayerSession
    /\ norm_path = NoPaths
    /\ used_cols = <<>>
    /\ ranked = <<>>
    /\ handler = IF uploaded_file.none THEN "init" ELSE "upload"
    /\ st_msgs = IF uploaded_file.none THEN <<>> ELSE <<"success: Loaded rows">>
    /\ calls = <<>>

RunNext == \E store \in StoreOutcomes : RunPredictions(store)

SpecRun == RunInit /\ [][RunNext]_vars

-----------------------------------------------------------------------------
(* The recommended playlist of one stored record *)

MaxN == 6
MaxTracksPerCategory == 3

Classical == Str("Classical")
Rock == Str("Rock")
Pop == Str("Pop")

\* the Songs collection with c Classical, r Rock and one Pop document
SongsOf(c, r) ==
    [i \in 1..c |-> Song(i, Classical)] \o [i \in 1..r |-> Song(100 + i, Rock)]
        \o <<Song(200, Pop)>>

\* rankings as run_predictions_on_uploaded_data writes them: distinct
\* categories, scores in proportion to non-increasing positive weights
RankedCategories == {Classical, Rock, Placeholder(Num(7))}
Weights == {<<1>>, <<1, 1>>, <<2, 1>>, <<3, 1>>, <<3, 2>>, <<7, 3>>,
            <<1, 1, 1>>, <<2, 1, 1>>, <<2, 2, 1>>, <<3, 2, 1>>, <<3, 3, 1>>}
WeightSum(w) == IF Len(w) = 1 THEN w[1] ELSE IF Len(w) = 2 THEN w[1] + w[2] ELSE w[1] + w[2] + w[3]
Distinct(n) ==
    {c \in [1..n -> RankedCategories] : \A i, j \in 1..n : i # j => c[i] # c[j]}
RankingsOf(w) ==
    {[i \in 1..Len(w) |-> Entry(cats[i], Frac(w[i], WeightSum(w)))] : cats \in Distinct(Len(w))}
Rankings == UNION {RankingsOf(w) : w \in Weights}

\* the ranking of a batch whose probabilities are all zero
ZeroRanking == <<Entry(Classical, Num(0)), Entry(Rock, Num(0))>>

StoredRecords ==
    {NoRecord} \cup
    {RecommendationDoc(<<"a">>, rk, NoScores) :
        rk \in {ZeroRanking} \cup Rankings}

PlaylistInit ==
    /\ uploaded_file = NoFrame
    /\ processed_eeg_data = NoFrame
    /\ ml_model = NoModel
    /\ patient_id = <<>>
    /\ recs \in {[EmptyStore EXCEPT ![<<"a">>] = rec] : rec \in StoredRecords}
    /\ songs \in {SongsOf(c, r) : c, r \in 0..MaxTracksPerCategory}
    /\ CATALOG = NoCatalog
    /\ user_email \in {<<>>, <<"a">>}
    /\ max_tracks \in 1..MaxN
    /\ alloc = <<>>
    /\ playlist = <<>>
    /\ caregiver_scores = NoneScores
    /\ raised = FALSE
    /\ quicksort_ties = "kept"
    /\ NoPlayerSession
    /\ norm_path = NoPaths
    /\ used_cols = <<>>
    /\ ranked = <<>>
    /\ handler = "init"
    /\ st_msgs = <<>>
    /\ calls = <<>>

PlaylistNext ==
    \E store \in StoreOutcomes, catalog_store \in StoreOutcomes :
        get_recommended_playlist_for_user(store, catalog_store)

SpecPlaylist == PlaylistInit /\ [][PlaylistNext]_vars

-----------------------------------------------------------------------------
(* Properties of the scoring stage (checked under SpecScore) *)

Electrodes == <<"TP9", "AF7", "AF8", "TP10">>

\* the mean of a band over the four electrodes, absent columns counted as 0
MeanOverElectrodes(df, r, band) ==
    FDiv(SumSeq([i \in 1..Len(Electrodes) |->
                    IF HasCol(df, EEGCol(band, Electrodes[i]))
                    THEN Cell(df, r, EEGCol(band, Electrodes[i])) ELSE Num(0)]),
         Num(Len(Electrodes)))

Scored == handler = "upload" /\ ~processed_eeg_data.none
ScoredRows == 1..NRows(processed_eeg_data)
Raw(r, col) == Cell(processed_eeg_data, r, col)
Norm(r, col) == Cell(processed_eeg_data, r, Normalized(col))

\* C4: in every row of a scored batch, whatever columns are present and
\* whatever their values, relaxation_score is exactly the negation of
\* engagement_score (an undefined score is undefined in both).
C4_RelaxationNegatesEngagement ==
    Scored => \A r \in ScoredRows : Raw(r, RelaxationCol) = FNeg(Raw(r, EngagementCol))

C4_Witness ==
    /\ Scored
    /\ \E r \in ScoredRows :
          /\ IsFinite(Raw(r, EngagementCol)) /\ Raw(r, EngagementCol).n > 0
          /\ Raw(r, RelaxationCol) = FNeg(Raw(r, EngagementCol))
    /\ \E r \in ScoredRows : Raw(r, EngagementCol).n < 0

\* C5: focus_score is +inf when the beta mean over the four electrodes is 0,
\* and theta mean / beta mean otherwise; scoring a numeric file raises nothing.
C5_FocusScore ==
    /\ Scored =>
          \A r \in ScoredRows :
             LET beta == MeanOverElectrodes(processed_eeg_data, r, "Beta")
                 theta == MeanOverElectrodes(processed_eeg_data, r, "Theta")
             IN  Raw(r, FocusCol) = IF beta = Num(0) THEN PosInf ELSE FDiv(theta, beta)
    /\ (handler = "upload" /\ \A c \in Range(uploaded_file.columns) :
                                  IsEEGName(c) => IsNumericDtype(uploaded_file, c))
          => st_msgs = <<"success: Loaded rows">>

C5_Witness ==
    /\ Scored /\ st_msgs = <<"success: Loaded rows">>
    /\ \E r \in ScoredRows :
          /\ MeanOverElectrodes(processed_eeg_data, r, "Beta") = Num(0)
          /\ Raw(r, FocusCol) = PosInf
    /\ \E r \in ScoredRows :
          /\ MeanOverElectrodes(processed_eeg_data, r, "Beta") = Frac(1, 4)
          /\ Raw(r, FocusCol) = Num(2)

\* C6 (as claimed): for each score column, a batch of at least two rows whose
\* raw values are defined and not all equal has a normalized column with
\* minimum 0 and maximum 10.
C6_NormalizedSpansZeroToTen ==
    Scored =>
       \A c \in Range(ScoreCols) :
          LET raw == Column(processed_eeg_data, c)
              normalized == Column(processed_eeg_data, Normalized(c))
          IN  (/\ NRows(processed_eeg_data) >= 2
               /\ \A r \in ScoredRows : ~IsNaN(raw[r])
               /\ \E r1, r2 \in ScoredRows : raw[r1] # raw[r2])
              => SeriesMin(normalized) = Num(0) /\ SeriesMax(normalized) = Num(10)

\* the column's minimum equals its maximum: at most one defined value
MinEqualsMax(vals) == Cardinality(NotNaNs(vals)) <= 1

\* C7: when a score column's minimum equals its maximum over the batch (all
\* values equal, one row, all infinite, or nothing defined), every row's
\* normalized value is the constant 5.0 and the normaliser does not divide.
C7_ConstantColumnGivesFive ==
    Scored =>
       \A c \in Range(ScoreCols) :
          MinEqualsMax(Column(processed_eeg_data, c))
             => /\ \A r \in ScoredRows : Norm(r, c) = Num(5)
                /\ norm_path[c] = "const"

C7_Witness ==
    /\ Scored /\ NRows(processed_eeg_data) = 2
    /\ \A r \in ScoredRows : Raw(r, FocusCol) = PosInf /\ Norm(r, FocusCol) = Num(5)
    /\ norm_path[FocusCol] = "const"
    /\ norm_path[EngagementCol] = "scaled"

\* C8 (as claimed, for files without missing cells): every normalized score
\* of every row lies in [0, 10], also when some raw focus scores are +inf.
C8_NormalizedInRange ==
    (Scored /\ \A r \in ScoredRows : \A i \in 1..Len(uploaded_file.columns) :
                  ~IsNaN(uploaded_file.data[r][i]))
       => \A c \in Range(ScoreCols) : \A r \in ScoredRows :
             FLe(Num(0), Norm(r, c)) /\ FLe(Norm(r, c), Num(10))

-----------------------------------------------------------------------------
(* Two patients' records: uploads, runs for either patient, and the general
   user's read of the signed-in user's scores *)

ForestModel == Model(TRUE, TRUE, IntCodes, "forest")

StoreFiles ==
    { OneColumn(<<Num(0), Num(1)>>), OneColumn(<<Num(2)>>) }

StorePatientIds == {<<>>, <<"a">>, <<"b">>}

StoreInit ==
    /\ uploaded_file = NoFrame
    /\ processed_eeg_data = NoFrame
    /\ ml_model = ForestModel
    /\ patient_id = <<>>
    /\ recs = EmptyStore
    /\ songs = <<>>
    /\ CATALOG = NoCatalog
    /\ user_email \in Users
    /\ max_tracks = DefaultMaxTracks
    /\ alloc = <<>>
    /\ playlist = <<>>
    /\ caregiver_scores = NoneScores
    /\ raised = FALSE
    /\ quicksort_ties = "kept"
    /\ NoPlayerSession
    /\ norm_path = NoPaths
    /\ used_cols = <<>>
    /\ ranked = <<>>
    /\ handler = "init"
    /\ st_msgs = <<>>
    /\ calls = <<>>

StoreUpload == \E f \in StoreFiles : UploadFile(f)
StoreEnterPatientId == \E p \in StorePatientIds : SetPatientId(p)
ReadScores == \E store \in StoreOutcomes : get_caregiver_scores_for_user(store)

StoreNext == StoreUpload \/ StoreEnterPatientId \/ Run \/ ReadScores

SpecStore == StoreInit /\ [][StoreNext]_vars

-----------------------------------------------------------------------------
(* Properties of the recommended playlist (SpecPlaylist) *)

Allocated == handler = "get_recommended_playlist_for_user" /\ ~raised /\ alloc # <<>>

RECURSIVE SumCounts(_)
SumCounts(pairs) ==
    IF pairs = <<>> THEN 0 ELSE pairs[1][2] + SumCounts(Tail(pairs))

RECURSIVE SumTracks(_)
SumTracks(cats) ==
    IF cats = {} THEN 0
    ELSE LET c == CHOOSE x \in cats : TRUE
         IN  Len(CATALOG[c]) + SumTracks(cats \ {c})

\* the catalog tracks of the categories of the stored ranking
AvailableTracks ==
    SumTracks({recs[user_email].categories[i].category :
                  i \in 1..Len(recs[user_email].categories)} \cap DOMAIN CATALOG)

\* C1 (as claimed): when at least one ranked category has tracks in the
\* catalog, the playlist has exactly min(N, catalog tracks of the ranked
\* categories) tracks.
C1_PlaylistLength ==
    Allocated => Len(playlist) = Min(max_tracks, AvailableTracks)

\* C2: when at least one ranked category is in the catalog and N >= 1, the
\* track counts of the allocation list sum to exactly N.
C2_AllocationSumsToN ==
    Allocated => SumCounts(alloc) = max_tracks

\* equal scores, N = 5: the first count is round(2.5) = 2, the last category
\* takes the remaining 3
C2_Witness ==
    /\ Allocated
    /\ max_tracks = 5
    /\ alloc = << <<Classical, 2>>, <<Rock, 3>> >>

-----------------------------------------------------------------------------
(* Properties of one prediction run (SpecRun, Spec) *)

RanPredictions == handler = "run_predictions"
IsWeighted ==
    /\ HasCol(processed_eeg_data, PredictedTopLabelCol)
    /\ HasCol(processed_eeg_data, PredictedProbaMaxCol)

\* the total weight of the batch: the sum of the top probabilities on the
\* weighted path, the number of rows on the frequency path
TotalWeight ==
    IF IsWeighted
    THEN SumSeq(Column(processed_eeg_data, PredictedProbaMaxCol))
    ELSE Num(NRows(processed_eeg_data))

\* C3: the ranking built from a non-empty prediction batch with positive
\* total weight, on either path, has non-negative scores that sum to 1.
C3_RankingSumsToOne ==
    (RanPredictions /\ ranked # <<>> /\ FLt(Num(0), TotalWeight))
       => /\ \A i \in 1..Len(ranked) : FLe(Num(0), ranked[i].score)
          /\ SumSeq([i \in 1..Len(ranked) |-> ranked[i].score]) = Num(1)

C3_Witness ==
    /\ RanPredictions /\ IsWeighted
    /\ Len(ranked) = 2
    /\ FLt(ranked[2].score, ranked[1].score)
    /\ FLt(Num(0), ranked[2].score)
    /\ FAdd(ranked[1].score, ranked[2].score) = Num(1)

\* the column is one the claim excludes by name
ExcludedByName(col) ==
    \/ col \in { <<"delta">>, <<"theta">>, <<"alpha">>, <<"beta">>, <<"gamma">>,
                 <<"melody", "_", "category">>, <<"Melody #">>, <<"timestamp">> }
    \/ Len(col) >= 3 /\ col[1] \in {"engagement", "focus", "relaxation"}
                     /\ col[2] = "_" /\ col[3] = "score"
    \/ Len(col) >= 2 /\ col[1] = "predicted" /\ col[2] = "_"
    \/ Len(col) >= 2 /\ col[Len(col) - 1] = "_" /\ col[Len(col)] = "normalized"

ExpectedFeatures(df) ==
    SelectSeq(df.columns, LAMBDA c : IsNumericDtype(df, c) /\ ~ExcludedByName(c))

\* the run gets as far as building the feature list
BuildsFeatures == ml_model.loaded /\ ~processed_eeg_data.none /\ ~IsEmpty(processed_eeg_data)

\* C9: the feature list of a run is the batch's numeric columns, in schema
\* order, that are not in the non-feature set, do not start with a
\* generated-column prefix and do not end with _normalized; for the example
\* columns it is [Beta_TP9_mean].
C9_FeatureList ==
    [][(RanPredictions' /\ BuildsFeatures)
          => /\ used_cols' = ExpectedFeatures(processed_eeg_data)
             /\ (uploaded_file = ExampleFile => used_cols' = <<EEGCol("Beta", "TP9")>>)]_vars

C9_Witness ==
    /\ RanPredictions
    /\ uploaded_file = ExampleFile
    /\ used_cols = <<EEGCol("Beta", "TP9")>>
    /\ st_msgs[1] = MsgPredicted

\* classification cannot be reached from this state
CannotClassify ==
    \/ ~ml_model.loaded
    \/ processed_eeg_data.none
    \/ NRows(processed_eeg_data) = 0
    \/ ExpectedFeatures(processed_eeg_data) = <<>>

\* C10: a run that cannot reach classification reports a message, calls no
\* classifier method, writes nothing to the store and leaves the scored batch
\* as it was.
C10_RefusedRunChangesNothing ==
    [][(RanPredictions' /\ CannotClassify)
          => /\ st_msgs' \in {<<MsgUnavailable>>, <<MsgNoFeatures>>}
             /\ calls' = <<>>
             /\ recs' = recs
             /\ processed_eeg_data' = processed_eeg_data]_vars

C10_Witness ==
    /\ RanPredictions
    /\ st_msgs = <<MsgNoFeatures>>
    /\ ml_model.loaded
    /\ NRows(processed_eeg_data) = 1
    /\ ~HasCol(processed_eeg_data, PredictedClassCol)
    /\ calls = <<>>
    /\ recs = EmptyStore

\* a call of the classifier raises on the batch of this state
ClassifierRaises ==
    /\ BuildsFeatures
    /\ ExpectedFeatures(processed_eeg_data) # <<>>
    /\ LET X == Features(processed_eeg_data, ExpectedFeatures(processed_eeg_data))
       IN  \/ PredictRaises(ml_model, X)
           \/ ml_model.has_proba /\ ProbaRaises(ml_model, X)

\* C11: when predict or predict_proba raises, the run reports the error and
\* leaves the session batch and the store exactly as they were.
C11_ClassifierFailureChangesNothing ==
    [][(RanPredictions' /\ ClassifierRaises)
          => /\ st_msgs' = <<MsgRunError>>
             /\ processed_eeg_data' = processed_eeg_data
             /\ recs' = recs]_vars

\* predict succeeded and predict_proba raised, with a patient to save for
C11_Witness ==
    /\ RanPredictions
    /\ st_msgs = <<MsgRunError>>
    /\ calls = <<"predict", "predict_proba">>
    /\ Strip(patient_id) # <<>>
    /\ ~HasCol(processed_eeg_data, PredictedClassCol)
    /\ recs = EmptyStore

\* the run committed its predictions to the session
Committed == RanPredictions /\ st_msgs # <<>> /\ st_msgs[1] = MsgPredicted

\* int(code), for the codes it accepts: truncation toward zero, or the
\* number a numeral string spells
HasIntegerValue(code) ==
    \/ code.k = "num" /\ code.d > 0
    \/ code.k = "str" /\ code.s \in {"2", "7"}
IntegerValue(code) ==
    IF code.k = "str" THEN (IF code.s = "2" THEN 2 ELSE 7)
    ELSE CHOOSE n \in -10..10 :
            IF code.n >= 0
            THEN n * code.d <= code.n /\ code.n < (n + 1) * code.d
            ELSE (n - 1) * code.d < code.n /\ code.n <= n * code.d

FiveLabels == <<"Classical", "Rock", "Pop", "Rap", "R&B">>

ExpectedLabel(code) ==
    IF HasIntegerValue(code) /\ IntegerValue(code) \in 1..5
    THEN Str(FiveLabels[IntegerValue(code)])
    ELSE IF code.k = "str" /\ \E i \in 1..5 : code.s = FiveLabels[i]
    THEN code
    ELSE Placeholder(code)

\* C12: a code of integer value n in 1..5 maps to the n-th of the five labels,
\* another code whose text is one of the labels maps to itself, any other code
\* to the placeholder 'Class <code>'; every row's predicted_label is that
\* mapping of its predicted_class, with or without a class list on the model.
C12_LabelOfClass ==
    Committed =>
       \A r \in 1..NRows(processed_eeg_data) :
          /\ Cell(processed_eeg_data, r, PredictedLabelCol)
                = ExpectedLabel(Cell(processed_eeg_data, r, PredictedClassCol))
          /\ Cell(processed_eeg_data, r, PredictedLabelCol)
                = class_value_to_label(Cell(processed_eeg_data, r, PredictedClassCol))

\* no class list: "7" gives the placeholder, "R&B" is kept
C12_Witness ==
    /\ Committed
    /\ ~ml_model.has_classes
    /\ NRows(processed_eeg_data) = 2
    /\ Cell(processed_eeg_data, 1, PredictedClassCol) = Str("7")
    /\ Cell(processed_eeg_data, 1, PredictedLabelCol) = Placeholder(Str("7"))
    /\ Cell(processed_eeg_data, 2, PredictedClassCol) = Str("R&B")
    /\ Cell(processed_eeg_data, 2, PredictedLabelCol) = Str("R&B")

\* C13 (as claimed): a run for a patient on a batch of zero rows, or on
\* predictions whose top probabilities sum to 0, produces the empty ranking.
C13_ZeroWeightGivesEmptyRanking ==
    (/\ RanPredictions
     /\ Strip(patient_id) # <<>>
     /\ ~processed_eeg_data.none
     /\ \/ NRows(processed_eeg_data) = 0
        \/ IsWeighted /\ TotalWeight = Num(0))
       => ranked = <<>>

-----------------------------------------------------------------------------
(* Properties of the Recommendations collection (SpecStore) *)

Saved == RanPredictions /\ st_msgs = <<MsgPredicted, MsgSaved>>

\* C14: a successful write leaves for its user exactly the record of that
\* write and leaves every other user's record as it was; a read returns the
\* stored scores of the user it asks for.
C14_LastWriteWins ==
    [][/\ Saved' =>
            /\ recs'[Strip(patient_id)] =
                  [exists |-> TRUE, user_email |-> Strip(patient_id),
                   categories |-> ranked', has_scores |-> TRUE,
                   cognitive_scores |-> CognitiveScores(processed_eeg_data')]
            /\ \A u \in Users \ {Strip(patient_id)} : recs'[u] = recs[u]
       /\ (handler' = "get_caregiver_scores_for_user" /\ ~raised' /\ caregiver_scores'.some)
             => /\ caregiver_scores'.value = recs[user_email].cognitive_scores
                /\ recs' = recs]_vars

\* a write for "a" while "b" holds a record of another batch
C14_Witness ==
    /\ Saved
    /\ patient_id = <<"a">>
    /\ recs[<<"a">>].categories = ranked
    /\ recs[<<"b">>].exists
    /\ \A i \in 1..Len(recs[<<"b">>].categories) :
          recs[<<"b">>].categories[i].category # ranked[1].category

\* the run reached the save stage and the record was not saved
StorageFailed ==
    /\ Committed
    /\ \E i \in 1..Len(calls) : calls[i] = "DDB"
    /\ \A i \in 1..Len(st_msgs) : st_msgs[i] # MsgSaved

\* C15 (as claimed): when the storage collaborator fails in the save stage,
\* the run reports the storage message, not the classifier-failure message,
\* and has attempted the write exactly once.
C15_StorageFailureMessage ==
    StorageFailed =>
       /\ st_msgs = <<MsgPredicted, MsgNotSaved>>
       /\ Cardinality({i \in 1..Len(calls) : calls[i] = "put_recommendations"}) = 1

\* C16 (as claimed): no exception escapes a pipeline operation.
C16_NoExceptionEscapes == ~raised

-----------------------------------------------------------------------------
(* Properties of the allocation (SpecPlaylist) *)

\* the stored ranking of the user, and the part of it that is in the catalog
Stored == recs[user_email].categories
StoredTotal ==
    LET s == SumSeq([i \in 1..Len(Stored) |-> Stored[i].score])
    IN  IF s = Num(0) THEN Num(1) ELSE s
Kept == SelectSeq(Stored, LAMBDA e : e.category \in DOMAIN CATALOG)

\* the integer nearest to n/d, the even one of two nearest
NearestEven(x) ==
    CHOOSE k \in 0..(x.n \div x.d + 1) :
       \/ Abs(2 * x.n - 2 * k * x.d) < x.d
       \/ Abs(2 * x.n - 2 * k * x.d) = x.d /\ k % 2 = 0

\* the budget left before position i of the allocation
RECURSIVE RemainingBefore(_)
RemainingBefore(i) == IF i = 1 THEN max_tracks ELSE RemainingBefore(i - 1) - alloc[i - 1][2]

\* C17: every allocated category that is not the last of the ranking gets
\* max(1, round(score * N)) capped at the remaining budget, round being
\* round-half-to-even; Classical 0.7, Rock 0.3, N = 5 gives
\* [(Classical, 4), (Rock, 1)].
C17_AllocationCounts ==
    Allocated =>
       /\ \A i \in 1..Len(alloc) :
             /\ alloc[i][1] = Kept[i].category
             /\ i < Len(Kept) =>
                   alloc[i][2] =
                      Min(Max(1, NearestEven(FMul(FDiv(Kept[i].score, StoredTotal),
                                                  Num(max_tracks)))),
                          RemainingBefore(i))
       /\ (/\ Stored = <<Entry(Classical, Frac(7, 10)), Entry(Rock, Frac(3, 10))>>
           /\ max_tracks = 5
           /\ {Classical, Rock} \subseteq DOMAIN CATALOG)
             => alloc = << <<Classical, 4>>, <<Rock, 1>> >>

C17_Witness ==
    /\ Allocated
    /\ Stored = <<Entry(Classical, Frac(7, 10)), Entry(Rock, Frac(3, 10))>>
    /\ max_tracks = 5
    /\ alloc = << <<Classical, 4>>, <<Rock, 1>> >>

\* C18: the ranking used for the allocation is the stored ranking without
\* the categories absent from the catalog, each kept score being the stored
\* score divided by the sum of all stored scores, absent categories included.
C18_FilteredNotRenormalized ==
    Allocated =>
       /\ Len(ranked) = Len(Kept)
       /\ \A i \in 1..Len(Kept) :
             /\ ranked[i].category = Kept[i].category
             /\ ranked[i].score = FDiv(Kept[i].score, StoredTotal)

\* a category was dropped and the kept scores sum to less than 1
C18_Witness ==
    /\ Allocated
    /\ Len(Stored) = 3
    /\ Len(ranked) = 2
    /\ Stored[2].category \notin DOMAIN CATALOG
    /\ FLt(SumSeq([i \in 1..Len(ranked) |-> ranked[i].score]), Num(1))

-----------------------------------------------------------------------------
(* Properties of the ranking of a run (SpecRun) *)

\* the run built a ranking from the committed batch
Ranked == Committed /\ ranked # <<>>

\* the rows of the committed batch whose column col holds the category cat
RowsWith(col, cat) ==
    {r \in 1..NRows(processed_eeg_data) : Cell(processed_eeg_data, r, col) = cat}

RECURSIVE SumTopProba(_)
SumTopProba(rows) ==
    IF rows = {} THEN Num(0)
    ELSE LET r == CHOOSE x \in rows : TRUE
         IN  FAdd(Cell(processed_eeg_data, r, PredictedProbaMaxCol), SumTopProba(rows \ {r}))

\* C19: with top label and top probability both in the batch (and a positive
\* total), a category's score is the sum of the top probabilities of its rows
\* over the sum of all top probabilities; otherwise it is the fraction of rows
\* whose predicted label is the category.
C19_RankingScores ==
    Ranked =>
       IF IsWeighted
       THEN FLt(Num(0), TotalWeight) =>
               /\ {ranked[i].category : i \in 1..Len(ranked)}
                     = Range(Column(processed_eeg_data, PredictedTopLabelCol))
               /\ \A i \in 1..Len(ranked) :
                     ranked[i].score =
                        FDiv(SumTopProba(RowsWith(PredictedTopLabelCol, ranked[i].category)),
                             SumTopProba(1..NRows(processed_eeg_data)))
       ELSE /\ {ranked[i].category : i \in 1..Len(ranked)}
                  = Range(Column(processed_eeg_data, PredictedLabelCol))
            /\ \A i \in 1..Len(ranked) :
                  ranked[i].score =
                     Frac(Cardinality(RowsWith(PredictedLabelCol, ranked[i].category)),
                          NRows(processed_eeg_data))

\* top probabilities 3/4 (Classical) and 1/2 (Rock): scores 3/5 and 2/5,
\* not the frequencies 1/2 and 1/2
C19_Witness ==
    /\ Ranked /\ IsWeighted
    /\ ranked = <<Entry(Str("Classical"), Frac(3, 5)), Entry(Str("Rock"), Frac(2, 5))>>

\* the first row of the committed batch that holds category cat in column col
FirstRow(col, cat) ==
    CHOOSE r \in RowsWith(col, cat) : \A q \in RowsWith(col, cat) : r <= q

GroupingCol == IF IsWeighted THEN PredictedTopLabelCol ELSE PredictedLabelCol

\* C20 (as claimed): the saved ranking is in non-increasing order of score,
\* holds each category once, and categories of equal score are in the order
\* in which the batch first shows them.
C20_RankingOrder ==
    Ranked =>
       \A i, j \in 1..Len(ranked) :
          i < j =>
             /\ FLe(ranked[j].score, ranked[i].score)
             /\ ranked[i].category # ranked[j].category
             /\ ranked[i].score = ranked[j].score
                   => FirstRow(GroupingCol, ranked[i].category)
                         < FirstRow(GroupingCol, ranked[j].category)

-----------------------------------------------------------------------------
(* Properties of the probability columns (SpecRun) *)

\* the probability vector the classifier gives for row r of the committed batch
RowProba(r) == TableAnswer(ml_model.table, Cell(processed_eeg_data, r, used_cols[1])).proba

\* C21: with probabilities and a class list, predicted_proba_max is the
\* maximum of the row's probability vector, predicted_proba_top_index the
\* (zero-based) position of its first occurrence, and predicted_top_label the
\* label of the class code at that position, whatever predicted_class is.
C21_TopProbabilityColumns ==
    (Committed /\ ml_model.has_proba /\ ml_model.has_classes) =>
       \A r \in 1..NRows(processed_eeg_data) :
          LET p == RowProba(r)
              m == Cell(processed_eeg_data, r, PredictedProbaMaxCol)
              k == Cell(processed_eeg_data, r, PredictedTopIndexCol).n + 1
          IN  /\ \E i \in 1..Len(p) : p[i] = m
              /\ \A i \in 1..Len(p) : FLe(p[i], m)
              /\ p[k] = m /\ \A i \in 1..(k - 1) : p[i] # m
              /\ Cell(processed_eeg_data, r, PredictedTopLabelCol)
                    = class_value_to_label(ml_model.codes[k])

\* the top label differs from the predicted label in some row
C21_Witness ==
    /\ Committed /\ ml_model.has_proba /\ ml_model.has_classes
    /\ \E r \in 1..NRows(processed_eeg_data) :
          /\ Cell(processed_eeg_data, r, PredictedTopLabelCol) = Str("Classical")
          /\ Cell(processed_eeg_data, r, PredictedLabelCol) = Str("Rock")
          /\ Cell(processed_eeg_data, r, PredictedProbaMaxCol) = Half
          /\ Cell(processed_eeg_data, r, PredictedTopIndexCol) = Num(0)

-----------------------------------------------------------------------------
(* Properties of the derived band columns (SpecScore) *)

\* C22 (as claimed): a derived band column holds, in every row, the mean of
\* the band's four electrode columns with 0 for an absent column: the band
\* mean the score formulas use.
C22_BandColumnIsElectrodeMean ==
    Scored =>
       \A i \in 1..Len(Bands) :
          HasCol(processed_eeg_data, <<Lower(Bands[i])>>) =>
             \A r \in ScoredRows :
                Raw(r, <<Lower(Bands[i])>>) = MeanOverElectrodes(processed_eeg_data, r, Bands[i])

-----------------------------------------------------------------------------
(* Properties of the caregiver session (Spec) *)

Uploaded == handler = "upload" /\ st_msgs = <<"success: Loaded rows">>

PredictionCols ==
    {PredictedClassCol, PredictedLabelCol, PredictedProbaMaxCol,
     PredictedTopIndexCol, PredictedTopLabelCol}

\* C23: whatever uploads and runs came before, a successful upload leaves in
\* the session the scored new file and nothing else -- its rows, no
\* prediction column the file does not have -- and the same classifier.
C23_UploadReplacesBatch ==
    [][Uploaded' =>
          /\ processed_eeg_data' = process_eeg_scores(CoerceTimestamp(uploaded_file'))
          /\ NRows(processed_eeg_data') = NRows(uploaded_file')
          /\ \A c \in PredictionCols :
                HasCol(processed_eeg_data', c) => HasCol(uploaded_file', c)
          /\ ml_model' = ml_model]_vars

\* an upload after a run whose predictions were saved for the patient
C23_Witness ==
    /\ Uploaded
    /\ recs[<<"a">>].exists
    /\ NRows(processed_eeg_data) = 2
    /\ \A c \in PredictionCols : ~HasCol(processed_eeg_data, c)
    /\ ml_model.loaded

-----------------------------------------------------------------------------
(* Properties of repeated runs (SpecRun) *)

\* C24: no feature column is a column the pipeline adds, and a run on a batch
\* that already holds the predictions of a run selects the same feature
\* columns and leaves the batch as that run left it.
C24_SecondRunChangesNothing ==
    [][/\ (RanPredictions' /\ used_cols' # <<>>) =>
             \A i \in 1..Len(used_cols') : ~ExcludedByName(used_cols'[i])
       /\ (Committed /\ RanPredictions') =>
             /\ used_cols' = used_cols
             /\ processed_eeg_data' = processed_eeg_data]_vars

\* a later run on the predicted batch: the record of an earlier run is in the
\* store and this run could not save
C24_Witness ==
    /\ Committed
    /\ st_msgs = <<MsgPredicted, MsgNotSaved>>
    /\ recs[<<"a">>].exists
    /\ HasCol(processed_eeg_data, PredictedProbaMaxCol)
    /\ used_cols = <<EEGCol("Beta", "TP9")>>

-----------------------------------------------------------------------------
(* Properties of the saved cognitive scores (SpecRun) *)

SavedScores == recs[Strip(patient_id)].cognitive_scores

\* the mean of the defined values of a column of the committed batch, to two
\* decimals; undefined when no value is defined
RECURSIVE SumDefined(_, _)
SumDefined(vals, i) ==
    IF i = 0 THEN Num(0)
    ELSE IF IsNaN(vals[i]) THEN SumDefined(vals, i - 1)
    ELSE FAdd(vals[i], SumDefined(vals, i - 1))
CountDefined(vals) == Cardinality({i \in 1..Len(vals) : ~IsNaN(vals[i])})
ToTwoDecimals(x) ==
    IF IsFinite(x) THEN Frac(NearestEven(FMul(x, Num(100))), 100) ELSE x
BatchMean(vals) ==
    IF CountDefined(vals) = 0 THEN NaN
    ELSE ToTwoDecimals(FDiv(SumDefined(vals, Len(vals)), Num(CountDefined(vals))))

NormalizedColumn(col) == Column(processed_eeg_data, Normalized(col))
InvertedColumn(col) ==
    [r \in 1..NRows(processed_eeg_data) |-> FSub(Num(10), NormalizedColumn(col)[r])]

\* C25 (as claimed): the saved engagement, focus and relaxation are the batch
\* means of the three normalized score columns, to two decimals.
C25_SavedScoresAreMeans ==
    Saved =>
       /\ SavedScores.engagement = BatchMean(NormalizedColumn(EngagementCol))
       /\ SavedScores.focus = BatchMean(NormalizedColumn(FocusCol))
       /\ SavedScores.relaxation = BatchMean(NormalizedColumn(RelaxationCol))

\* C25 (amended): the saved engagement and relaxation are the batch means of
\* their normalized columns, the saved focus is the batch mean of
\* 10 - focus_score_normalized, each to two decimals.
C25_SavedFocusIsInverted ==
    Saved =>
       /\ SavedScores.engagement = BatchMean(NormalizedColumn(EngagementCol))
       /\ SavedScores.focus = BatchMean(InvertedColumn(FocusCol))
       /\ SavedScores.relaxation = BatchMean(NormalizedColumn(RelaxationCol))

\* a saved focus that is not the mean of focus_score_normalized
C25_Witness ==
    /\ Saved
    /\ IsFinite(SavedScores.focus)
    /\ SavedScores.focus = BatchMean(InvertedColumn(FocusCol))
    /\ SavedScores.focus # BatchMean(NormalizedColumn(FocusCol))
    /\ IsFinite(SavedScores.engagement)

-----------------------------------------------------------------------------
(* Properties of the catalog cache (SpecPlaylist) *)

QueriedSongs(made) == \E i \in 1..Len(made) : made[i] = "list_songs"

\* C26 (as claimed): once a call has loaded the catalog, whatever the load
\* returned, no later call queries the Songs collection again.
C26_CatalogLoadedOnce ==
    [][(handler = "get_recommended_playlist_for_user" /\ QueriedSongs(calls))
          => ~QueriedSongs(calls')]_vars

-----------------------------------------------------------------------------
(* Engagement and relaxation after normalisation (SpecScore) *)

EngagementFinite == \A r \in ScoredRows : IsFinite(Raw(r, EngagementCol))

\* C27: in a scored batch whose engagement scores are all finite, every row
\* has engagement_score_normalized + relaxation_score_normalized = 10; when
\* the engagement column is constant both normalized values are 5.0.
C27_EngagementPlusRelaxationIsTen ==
    (Scored /\ EngagementFinite) =>
       /\ \A r \in ScoredRows :
             FAdd(Norm(r, EngagementCol), Norm(r, RelaxationCol)) = Num(10)
       /\ norm_path[EngagementCol] = "const" =>
             \A r \in ScoredRows :
                Norm(r, EngagementCol) = Num(5) /\ Norm(r, RelaxationCol) = Num(5)

C27_Witness ==
    /\ Scored /\ EngagementFinite
    /\ norm_path[EngagementCol] = "scaled" /\ norm_path[RelaxationCol] = "scaled"
    /\ \E r1, r2 \in ScoredRows :
          /\ Raw(r1, EngagementCol).n < 0 /\ Raw(r2, EngagementCol).n > 0
          /\ Norm(r1, EngagementCol) = Num(0) /\ Norm(r1, RelaxationCol) = Num(10)
          /\ Norm(r2, EngagementCol) = Num(10) /\ Norm(r2, RelaxationCol) = Num(0)

-----------------------------------------------------------------------------
(* The returned playlist as a whole (SpecPlaylist) *)

Returned == handler = "get_recommended_playlist_for_user" /\ ~raised

StoredCategories ==
    IF user_email = <<>> \/ ~recs[user_email].exists THEN {}
    ELSE {Stored[i].category : i \in 1..Len(Stored)}

TracksOf(c) == Cardinality({i \in 1..Len(playlist) : playlist[i].category = c})
AllocatedCount(c) ==
    SumCounts(SelectSeq(alloc, LAMBDA pair : pair[1] = c))
CatalogCount(c) == IF c \in DOMAIN CATALOG THEN Len(CATALOG[c]) ELSE 0
RankOf(c) == CHOOSE i \in 1..Len(Stored) : Stored[i].category = c

\* C28: a returned playlist has at most N tracks; of each category it holds
\* at most min(allocated count, catalog tracks of the category); its tracks
\* are catalog tracks of categories that are both in the stored ranking and in
\* the catalog; the categories follow the ranking order; and it is empty when
\* the user id is empty, no record exists, the record has no categories, or
\* no ranked category is in the catalog.
C28_PlaylistShape ==
    Returned =>
       /\ Len(playlist) <= max_tracks
       /\ \A c \in StoredCategories \cup DOMAIN CATALOG
                      \cup {playlist[i].category : i \in 1..Len(playlist)} :
             TracksOf(c) <= Min(AllocatedCount(c), CatalogCount(c))
       /\ \A i \in 1..Len(playlist) :
             /\ playlist[i].category \in StoredCategories \cap DOMAIN CATALOG
             /\ \E j \in 1..Len(CATALOG[playlist[i].category]) :
                   CATALOG[playlist[i].category][j].id = playlist[i].id
       /\ \A i, j \in 1..Len(playlist) :
             i < j => RankOf(playlist[i].category) <= RankOf(playlist[j].category)
       /\ (\/ user_email = <<>>
           \/ ~recs[user_email].exists
           \/ Stored = <<>>
           \/ StoredCategories \cap DOMAIN CATALOG = {}) => playlist = <<>>

\* Classical 2/3 and Rock 1/3 with N = 3: Classical is short in the catalog
\* (one track for two allocated), Rock is cut by its count (one of three)
C28_Witness ==
    /\ Returned /\ max_tracks = 3
    /\ alloc = << <<Classical, 2>>, <<Rock, 1>> >>
    /\ CatalogCount(Classical) = 1 /\ CatalogCount(Rock) = 3
    /\ Len(playlist) = 2
    /\ playlist[1].category = Classical /\ playlist[2].category = Rock

-----------------------------------------------------------------------------
(* The write of one prediction run (SpecRun) *)

Puts(made) == {i \in 1..Len(made) : made[i] = "put_recommendations"}
Predicts(made) == {i \in 1..Len(made) : made[i] \in {"predict", "predict_proba"}}

\* C29: one run attempts the write of a recommendation record at most once,
\* only with a patient id that is non-empty after trimming and a non-empty
\* ranking, only after the predicted batch was committed to the session, and
\* changes no record but that patient's; with an empty patient id a run that
\* classifies still commits the predicted batch and writes nothing.
C29_WriteAtMostOnce ==
    [][RanPredictions' =>
          /\ Cardinality(Puts(calls')) <= 1
          /\ (Puts(calls') # {} \/ recs' # recs) =>
                /\ Strip(patient_id) # <<>>
                /\ ranked' # <<>>
                /\ st_msgs'[1] = MsgPredicted
                /\ HasCol(processed_eeg_data', PredictedClassCol)
                /\ processed_eeg_data' =
                      PredictedFrame(processed_eeg_data, ml_model,
                                     Features(processed_eeg_data, used_cols'))
                /\ \A i \in Puts(calls') : \A j \in Predicts(calls') : j < i
                /\ \A u \in DOMAIN recs : u # Strip(patient_id) => recs'[u] = recs[u]
          /\ (Strip(patient_id) = <<>> /\ ~CannotClassify /\ ~ClassifierRaises) =>
                /\ HasCol(processed_eeg_data', PredictedClassCol)
                /\ st_msgs' = <<MsgPredicted, MsgNoPatient>>
                /\ Puts(calls') = {}
                /\ recs' = recs]_vars

\* a blank-padded patient id: the run writes once, for the trimmed id
C29_Witness ==
    /\ Saved
    /\ patient_id # Strip(patient_id)
    /\ Cardinality(Puts(calls)) = 1
    /\ ranked # <<>>
    /\ recs[Strip(patient_id)].exists
    /\ recs[Strip(patient_id)].categories = ranked
    /\ HasCol(processed_eeg_data, PredictedClassCol)

-----------------------------------------------------------------------------
(* A general user's player session: runs of the dashboard, plays and stops *)

MaxPlays == 3
MaxClock == 2

\* a Songs collection with a document that has no category field
PlayerSongs == <<Song(1, Classical), Song(101, Rock), Song(300, PyNone)>>

PlayerInit ==
    /\ uploaded_file = NoFrame
    /\ processed_eeg_data = NoFrame
    /\ ml_model = NoModel
    /\ patient_id = <<>>
    /\ recs = EmptyStore
    /\ songs = PlayerSongs
    /\ CATALOG = NoCatalog
    /\ user_email = <<"a">>
    /\ max_tracks = DefaultMaxTracks
    /\ alloc = <<>>
    /\ playlist = <<>>
    /\ caregiver_scores = NoneScores
    /\ raised = FALSE
    /\ quicksort_ties = "kept"
    /\ NoPlayerSession
    /\ norm_path = NoPaths
    /\ used_cols = <<>>
    /\ ranked = <<>>
    /\ handler = "init"
    /\ st_msgs = <<>>
    /\ calls = <<>>

OpenDashboard == \E catalog_store \in StoreOutcomes : general_user_dashboard(catalog_store)
Stop == \E store \in StoreOutcomes, catalog_store \in StoreOutcomes :
            StopButton(store, catalog_store)
Play ==
    /\ Len(listening_history) < MaxPlays
    /\ \E card \in Cards(CATALOG), now \in 1..MaxClock, store \in StoreOutcomes :
          track_card(card[1], card[2], now, store)

PlayerNext == OpenDashboard \/ Stop \/ Play

SpecPlayer == PlayerInit /\ [][PlayerNext]_vars

-----------------------------------------------------------------------------
(* Properties of the player session (SpecPlayer) *)

SessionInitialized == session_keys = PlayerKeys
LastPlayed == listening_history[Len(listening_history)]

\* C30: in every state of an initialised session, is_playing is True exactly
\* when current_track is not None and playback_position is 0; a play action
\* appends exactly one entry, for the track played, to listening_history, and
\* no other action changes listening_history.
C30_PlayerStateConsistent ==
    /\ [](SessionInitialized =>
             /\ is_playing <=> current_track # NoTrack
             /\ playback_position = 0)
    /\ [][SessionInitialized' =>
             IF handler' = "track_card"
             THEN /\ Len(listening_history') = Len(AfterInitialize.listening_history) + 1
                  /\ SubSeq(listening_history', 1, Len(listening_history') - 1)
                        = AfterInitialize.listening_history
                  /\ current_track' = <<[LastPlayed'.track EXCEPT
                                            !.category = LastPlayed'.category]>>
             ELSE listening_history' = AfterInitialize.listening_history]_vars

\* two plays, the first of the track without a category field, then Stop
C30_Witness ==
    /\ SessionInitialized /\ handler = "stop_button"
    /\ current_track = NoTrack /\ ~is_playing /\ playback_position = 0
    /\ Len(listening_history) = 2
    /\ listening_history[1].track = Song(300, PyNone)
    /\ listening_history[1].category = Uncategorized
    /\ listening_history[2].track = Song(101, Rock)

====
